---- MODULE Spec2Model ----
(***************************************************************************)
(* word-of-wisdom: a TCP service that hands out a quote only to a client   *)
(* that has solved a signed proof-of-work challenge.                       *)
(*                                                                         *)
(* The module models                                                       *)
(*   - the challenge record and its methods (ID, Sign, VerifySignature,    *)
(*     VerifySolution, GenerateNonce)             specification SpecDomain *)
(*   - the challenge service (Generate, Verify) over the in-memory         *)
(*     challenge repository                      specification SpecService *)
(*   - the TCP server's per-connection handler            specification Spec *)
(*                                                                         *)
(* Time is counted in ticks, TicksPerSecond of them to the second, so that *)
(* the truncation of ExpiresAt to a Unix timestamp is visible.  Byte       *)
(* strings are sequences of numbers 0..255.  SHA-256 is replaced by a      *)
(* small deterministic digest (Sum256) with the same interface: any byte   *)
(* string in, Size bytes out.                                              *)
(***************************************************************************)
EXTENDS Integers, Sequences, FiniteSets, TLC

\* ------------------------------------------------------------------ bounds
\* Clock resolution: ticks per second (the program's clock has 10^9).
TicksPerSecond == 2
\* The clock runs from 0 to MaxTime ticks.
MaxTime == 3
\* Challenge complexities range up to MaxComplexity.
MaxComplexity == 2
\* Candidate solutions range over 0..MaxSolution.
MaxSolution == 3
\* The random source yields one of NumNonces nonces.
NumNonces == 2
\* The configured expiry duration, in ticks.
Expiration == 2
\* Generate succeeds at most MaxIssued times.
MaxIssued == 1
\* Spec: at most MaxVerifying connections are in handleGetQuote at a time.
MaxVerifying == 1
\* SpecAlias: the heap holds at most MaxHeap objects.
MaxHeap == 15
\* SpecAlias: the caller writes through its pointers at most MaxWrites times.
MaxWrites == 2
\* The ceiling of Solve's search (the program's maxIterations is 1000000):
\* Solve tests the candidates 0..maxIterations - 1.
maxIterations == 4

\* ------------------------------------------------------- program constants
\* sha256.Size: the length of a digest, and of a challenge id on the wire.
Size == 32
\* The length of a generated nonce.
NonceLen == 32
\* The complexity the program configures by default.
DefaultComplexity == 100000

\* ------------------------------------------------------------ byte strings
RECURSIVE Pow(_, _)
Pow(b, e) == IF e = 0 THEN 1 ELSE b * Pow(b, e - 1)

Abs(n) == IF n < 0 THEN -n ELSE n

Min(a, b) == IF a < b THEN a ELSE b

\* s is a prefix of t.
IsPrefix(s, t) == Len(s) <= Len(t) /\ SubSeq(t, 1, Len(s)) = s

\* (*big.Int).Bytes(): the absolute value as a big-endian byte string without
\* leading zeros; the sign is dropped and zero is the empty string.
RECURSIVE NatBytes(_)
NatBytes(n) == IF n = 0 THEN <<>> ELSE Append(NatBytes(n \div 256), n % 256)

BigBytes(x) == NatBytes(Abs(x))

\* A decoder that keeps the last byte only: a mutant of SetBytes.
SetBytesLowByte(b) == IF b = <<>> THEN 0 ELSE b[Len(b)]

\* (*big.Int).SetBytes(): a big-endian unsigned byte string as a number.
RECURSIVE SetBytes(_)
SetBytes(b) ==
    IF b = <<>> THEN 0
    ELSE 256 * SetBytes(SubSeq(b, 1, Len(b) - 1)) + b[Len(b)]

\* (*big.Int).FillBytes(make([]byte, n)): big-endian, left-padded with zeros.
FillBytes(x, n) ==
    LET b == BigBytes(x)
    IN  [i \in 1..(n - Len(b)) |-> 0] \o b

\* binary.Write(buf, binary.BigEndian, int64(n)): eight bytes, two's
\* complement.  The model's numbers fit in four bytes, the upper four are the
\* sign extension.
Int64BE(n) ==
    LET ext == IF n < 0 THEN 255 ELSE 0
    IN  <<ext, ext, ext, ext,
          (n \div 16777216) % 256, (n \div 65536) % 256,
          (n \div 256) % 256, n % 256>>

\* ------------------------------------------------------------------ digest
\* The stand-in for SHA-256.  Absorb folds the input into a 24-bit state;
\* the digest spreads that state over Size bytes: the first 24 bytes hold
\* one bit of the state each (so that leading zero bytes are frequent enough
\* for proof of work within small bounds), the last 8 repeat it in bytes.
\* Like SHA-256 it is deterministic, and it is free of collisions on the
\* inputs the model reaches.
Mix(h, x) == (h * 131 + x + 1) % 15485863

RECURSIVE Absorb(_, _, _)
Absorb(h, b, i) ==
    IF h < 0 \/ i > Len(b) THEN h
    ELSE IF i + 3 <= Len(b)
    THEN Absorb(Mix(Mix(Mix(Mix(h, b[i]), b[i + 1]), b[i + 2]), b[i + 3]),
                b, i + 4)
    ELSE Absorb(Mix(h, b[i]), b, i + 1)

Sum256(b) ==
    LET h == Absorb(7, b, 1)
    IN  [i \in 1..Size |->
            IF i <= 24 THEN (h \div Pow(2, i - 1)) % 2
            ELSE (h \div Pow(2, 3 * (i - 25))) % 256]

\* ------------------------------------------------------------ the challenge
\* A []byte that may be nil, and a *big.Int that may be nil.
NilSlice == [nil |-> TRUE, bytes |-> <<>>]
Slice(b) == [nil |-> FALSE, bytes |-> b]
NilInt == [nil |-> TRUE, v |-> 0]
BigInt(v) == [nil |-> FALSE, v |-> v]

\* domain.Challenge.  ExpiresAt is a time in ticks.
Challenge(complexity, nonce, expiresAt) ==
    [Complexity |-> complexity, Nonce |-> nonce, ExpiresAt |-> expiresAt,
     Signature |-> NilSlice, Solution |-> NilInt]

\* time.Time.Unix(): whole seconds since the epoch.
Unix(t) == t \div TicksPerSecond

\* After with the boundary instant counted as past: a mutant of After.
AfterOrAt(t, u) == t >= u

\* time.Now().After(t)
After(t, u) == t > u

\* The buffer ID() hashes with the nonce removed: a mutant of IDBuffer.
IDBufferNoNonce(c) ==
    Int64BE(Len(BigBytes(c.Complexity))) \o BigBytes(c.Complexity)
        \o Int64BE(Unix(c.ExpiresAt))

\* The buffer ID() hashes with the signature appended: a mutant of IDBuffer.
IDBufferWithSignature(c) ==
    Int64BE(Len(BigBytes(c.Complexity))) \o BigBytes(c.Complexity)
        \o Int64BE(Len(c.Nonce)) \o c.Nonce
        \o Int64BE(Unix(c.ExpiresAt)) \o c.Signature.bytes

\* The buffer ID() hashes: the length-prefixed complexity bytes, the
\* length-prefixed nonce, the expiry as a Unix timestamp.
IDBuffer(c) ==
    Int64BE(Len(BigBytes(c.Complexity))) \o BigBytes(c.Complexity)
        \o Int64BE(Len(c.Nonce)) \o c.Nonce
        \o Int64BE(Unix(c.ExpiresAt))

\* Challenge.ID()
ID(c) == Sum256(IDBuffer(c))

\* Challenge.Sign(secret): the challenge with its signature set.
Sign(c, secret) == [c EXCEPT !.Signature = Slice(Sum256(ID(c) \o secret))]

\* VerifySignature that accepts any signature of the right length: a mutant of
\* VerifySignature.
VerifySignatureLengthOnly(c, secret, t) ==
    IF c.Signature.nil THEN FALSE
    ELSE IF After(t, c.ExpiresAt) THEN FALSE
    ELSE Len(Sum256(ID(c) \o secret)) = Len(c.Signature.bytes)

\* Challenge.VerifySignature(secret) at time t.
VerifySignature(c, secret, t) ==
    IF c.Signature.nil THEN FALSE
    ELSE IF After(t, c.ExpiresAt) THEN FALSE
    ELSE Sum256(ID(c) \o secret) = c.Signature.bytes

\* The loop stopping one byte early: a mutant of LeadingZeros.
RECURSIVE LeadingZerosOneShort(_, _, _)
LeadingZerosOneShort(hashBytes, requiredZeros, i) ==
    IF ~(i < requiredZeros - 1) THEN "true"
    ELSE IF i >= Len(hashBytes) THEN "panic"
    ELSE IF hashBytes[i + 1] # 0 THEN "false"
    ELSE LeadingZerosOneShort(hashBytes, requiredZeros, i + 1)

\* The loop over the leading bytes of the digest.  Reading hashBytes[i] with
\* i beyond the digest panics (index out of range).
RECURSIVE LeadingZeros(_, _, _)
LeadingZeros(hashBytes, requiredZeros, i) ==
    IF ~(i < requiredZeros) THEN "true"
    ELSE IF i >= Len(hashBytes) THEN "panic"
    ELSE IF hashBytes[i + 1] # 0 THEN "false"
    ELSE LeadingZeros(hashBytes, requiredZeros, i + 1)

\* VerifySolution without the requiredZeros <= 0 test: a mutant of
\* SolutionOutcome.
SolutionOutcomeNoFloor(c, solution, t) ==
    IF After(t, c.ExpiresAt) THEN "false"
    ELSE LeadingZeros(Sum256(ID(c) \o BigBytes(solution)), c.Complexity, 0)

\* VerifySolution without its expiry check.
SolutionOutcomeNoExpiry(c, solution, t) ==
    IF c.Complexity <= 0 THEN "false"
    ELSE LeadingZeros(Sum256(ID(c) \o BigBytes(solution)), c.Complexity, 0)

\* VerifySolution hashing the time of the call along with the id and the
\* solution: a mutant of SolutionOutcome.
SolutionOutcomeSalted(c, solution, t) ==
    IF After(t, c.ExpiresAt) THEN "false"
    ELSE LET hashBytes ==
                 Sum256(ID(c) \o BigBytes(solution) \o Append(NatBytes(t), 1))
             requiredZeros == c.Complexity
         IN  IF requiredZeros <= 0 THEN "false"
             ELSE LeadingZeros(hashBytes, requiredZeros, 0)

\* Challenge.VerifySolution(solution) at time t: "true", "false" or "panic".
SolutionOutcome(c, solution, t) ==
    IF After(t, c.ExpiresAt) THEN "false"
    ELSE LET hashBytes == Sum256(ID(c) \o BigBytes(solution))
             requiredZeros == c.Complexity
         IN  IF requiredZeros <= 0 THEN "false"
             ELSE LeadingZeros(hashBytes, requiredZeros, 0)

VerifySolution(c, solution, t) == SolutionOutcome(c, solution, t) = "true"

\* Challenge.VerifySolution at time t from the digest on: hashBytes is what
\* hash.Sum(nil) returned.
OutcomeOfDigest(c, hashBytes, t) ==
    IF After(t, c.ExpiresAt) THEN "false"
    ELSE LET requiredZeros == c.Complexity
         IN  IF requiredZeros <= 0 THEN "false"
             ELSE LeadingZeros(hashBytes, requiredZeros, 0)

\* ------------------------------------------------------------------ errors
ErrNil == "<nil>"
ErrNotFound == "not found"
ErrChallengeExists == "challenge already exists"
ErrChallengeExpired == "challenge has expired"
ErrInvalidSolution == "invalid solution"
ErrNoSolutionFound == "no solution found"
ErrInvalidChallenge == "invalid challenge"
ErrSolutionNotFound == "solution not found"
ErrNoQuotes == "no quotes available"
\* The error of a failed read of the random source.
ErrEntropy == "entropy source failed"
\* ctx.Err() of a cancelled context and of one whose deadline has passed.
Canceled == "context canceled"
DeadlineExceeded == "context deadline exceeded"

\* ------------------------------------------------ the challenge repository
\* hex.EncodeToString: two lower-case hexadecimal digits per byte.
HexDigits ==
    <<"0", "1", "2", "3", "4", "5", "6", "7",
      "8", "9", "a", "b", "c", "d", "e", "f">>

Hex(b) ==
    [i \in 1..(2 * Len(b)) |->
        IF i % 2 = 1 THEN HexDigits[(b[(i + 1) \div 2] \div 16) + 1]
        ELSE HexDigits[(b[i \div 2] % 16) + 1]]

\* getHexID
getHexID(c) == Hex(ID(c))

\* The deep copy the repository makes on write and on read: the copied
\* signature is never nil (make([]byte, len)).
CopyChallenge(c) ==
    [Complexity |-> c.Complexity, Nonce |-> c.Nonce,
     ExpiresAt |-> c.ExpiresAt, Signature |-> Slice(c.Signature.bytes),
     Solution |-> c.Solution]

\* The value returned in place of a nil *Challenge.
NoChallenge == Challenge(0, <<>>, 0)

\* The repository's map: a function from hex ids to challenges.
EmptyStore == <<>>

\* CreateChallenge without the existence check: the entry is overwritten.
CreateChallengeOverwrite(st, c) ==
    [store |-> (getHexID(c) :> CopyChallenge(c)) @@ st, err |-> ErrNil]

\* CreateChallenge under the write lock: the map after the call, and the
\* error.
CreateChallenge(st, c) ==
    LET id == getHexID(c)
    IN  IF id \in DOMAIN st
        THEN [store |-> st, err |-> ErrChallengeExists]
        ELSE [store |-> (id :> CopyChallenge(c)) @@ st, err |-> ErrNil]

\* A lookup that returns a stored challenge whatever the id is.
GetChallengeIgnoringID(st, id) ==
    IF DOMAIN st = {}
    THEN [challenge |-> NoChallenge, err |-> ErrNotFound]
    ELSE [challenge |-> CopyChallenge(st[CHOOSE k \in DOMAIN st : TRUE]),
          err |-> ErrNil]

\* GetChallenge under the read lock.
GetChallenge(st, id) ==
    LET hexID == Hex(id)
    IN  IF hexID \notin DOMAIN st
        THEN [challenge |-> NoChallenge, err |-> ErrNotFound]
        ELSE [challenge |-> CopyChallenge(st[hexID]), err |-> ErrNil]

\* DeleteChallenge that reports success for an absent id.
DeleteChallengeSilent(st, id) ==
    [store |-> [k \in DOMAIN st \ {Hex(id)} |-> st[k]], err |-> ErrNil]

\* DeleteChallenge under the write lock.
DeleteChallenge(st, id) ==
    LET hexID == Hex(id)
    IN  IF hexID \notin DOMAIN st
        THEN [store |-> st, err |-> ErrNotFound]
        ELSE [store |-> [k \in DOMAIN st \ {hexID} |-> st[k]],
              err |-> ErrNil]

\* ---------------------------------------------------- the challenge service
\* The k-th byte string the random source can yield.
RandomNonce(k) == [i \in 1..NonceLen |-> (k * i) % 256]

\* GenerateNonce(): a nonce, or the error of the random source.
GenerateNonce ==
    {[nonce |-> RandomNonce(k), err |-> ErrNil] : k \in 1..NumNonces}
        \cup {[nonce |-> <<>>, err |-> ErrEntropy]}

\* Generate that leaves the challenge unsigned.
GenerateUnsigned(svc, st, rnd, t) ==
    IF rnd.err # ErrNil
    THEN [challenge |-> NoChallenge, err |-> rnd.err, store |-> st]
    ELSE LET challenge ==
                 Challenge(svc.complexity, rnd.nonce, t + svc.expirationTime)
             created == CreateChallenge(st, challenge)
         IN  IF created.err # ErrNil
             THEN [challenge |-> NoChallenge, err |-> created.err,
                   store |-> created.store]
             ELSE [challenge |-> challenge, err |-> ErrNil,
                   store |-> created.store]

\* Generate that returns the challenge along with the error of the store.
GenerateKeepingChallenge(svc, st, rnd, t) ==
    IF rnd.err # ErrNil
    THEN [challenge |-> NoChallenge, err |-> rnd.err, store |-> st]
    ELSE LET challenge ==
                 Sign(Challenge(svc.complexity, rnd.nonce,
                                t + svc.expirationTime), svc.secret)
             created == CreateChallenge(st, challenge)
         IN  [challenge |-> challenge, err |-> created.err,
              store |-> created.store]

\* challengeService.Generate at time t, given what GenerateNonce returned:
\* the challenge returned, the error, and the repository after the call.
Generate(svc, st, rnd, t) ==
    IF rnd.err # ErrNil
    THEN [challenge |-> NoChallenge, err |-> rnd.err, store |-> st]
    ELSE LET challenge ==
                 Sign(Challenge(svc.complexity, rnd.nonce,
                                t + svc.expirationTime), svc.secret)
             created == CreateChallenge(st, challenge)
         IN  IF created.err # ErrNil
             THEN [challenge |-> NoChallenge, err |-> created.err,
                   store |-> created.store]
             ELSE [challenge |-> challenge, err |-> ErrNil,
                   store |-> created.store]

\* The signature step reporting its failure as the solution step's error.
VerifyStepSignatureAsSolutionError(svc, challenge, t) ==
    IF ~VerifySignature(challenge, svc.secret, t)
    THEN ErrInvalidSolution
    ELSE ErrNil

\* The signature step with an expiry check of its own, which returns
\* ErrChallengeExpired: a mutant of VerifyStepSignature.
VerifyStepSignatureReportingExpiry(svc, challenge, t) ==
    IF After(t, challenge.ExpiresAt)
    THEN ErrChallengeExpired
    ELSE IF ~VerifySignature(challenge, svc.secret, t)
    THEN ErrInvalidChallenge
    ELSE ErrNil

\* challengeService.Verify, step 2: the signature check at time t.
VerifyStepSignature(svc, challenge, t) ==
    IF ~VerifySignature(challenge, svc.secret, t)
    THEN ErrInvalidChallenge
    ELSE ErrNil

\* challengeService.Verify, step 3: the solution check at time t.
VerifyStepSolution(challenge, solution, t) ==
    IF ~VerifySolution(challenge, solution, t)
    THEN ErrInvalidSolution
    ELSE ErrNil

\* challengeService.Verify(ctx, challengeID, solution) on the repository st,
\* with its three steps made at the same instant t: the error returned.
VerifyOn(svc, st, id, solution, t) ==
    LET g == GetChallenge(st, id)
    IN  IF g.err # ErrNil THEN g.err
        ELSE LET err == VerifyStepSignature(svc, g.challenge, t)
             IN  IF err # ErrNil THEN err
                 ELSE VerifyStepSolution(g.challenge, solution, t)

\* ---------------------------------------------------------------- the state
VARIABLES
    now,      \* the wall clock, in ticks
    ch,       \* SpecDomain: the challenge object under test
    signed,   \* SpecDomain: the challenge as constructed or as last signed,
              \*             and the secret it was signed with
    res,      \* SpecDomain: the method call just made: receiver before the
              \*             call, arguments, return value
    svc,      \* the challenge service: secret, complexity, expirationTime
    store,    \* the challenge repository's map
    issued,   \* history: the challenges Generate has returned
    call,     \* SpecService: the Verify call in progress
    conns,    \* Spec: the server's connections, each with its handler's
              \*       position, what it read and what it wrote
    gen,      \* SpecService: the Generate call that has just returned
    rep,      \* SpecRepository: the repository's lock and the goroutines
              \*                 calling it
    al,       \* SpecAlias: the heap of the repository and of its caller
    srv,      \* SpecLifecycle: the listener, the shutdown channel and the
              \*                positions of Start and Stop
    slv       \* SpecSolve: the Solve call in progress

domVars == <<ch, signed, res>>
svcVars == <<svc, store, issued, call>>
repVars == <<rep, al>>
vars ==
    <<now, ch, signed, res, svc, store, issued, call, conns, gen, rep, al,
      srv, slv>>

\* ------------------------------------------------------------------ inputs
\* Signing secrets: "s" and "s2".  The service is configured with the first.
ServerSecret == <<115>>
Secrets == {ServerSecret, <<115, 50>>}

\* The nonces the random source can yield.
Nonces == {RandomNonce(k) : k \in 1..NumNonces}

Times == 0..MaxTime
Complexities == (-1)..MaxComplexity
Solutions == 0..MaxSolution

\* Byte strings a caller may write over a signature.
Garbage == <<105, 110, 118>>

\* ------------------------------------------------- SpecDomain: the methods
NoRes == [op |-> "none"]
NoCall == [pc |-> "idle"]

\* The names of the connections the server can have open at once.
Conns == {"c1", "c2"}

\* What a handler sends: nothing yet, a challenge, a quote, an error object.
NoData == [kind |-> "none"]

\* A connection no handler is running on.
FreeConn ==
    [pc |-> "free", cmd |-> 0, id |-> <<>>, solBytes |-> <<>>,
     found |-> FALSE, challenge |-> NoChallenge, tSig |-> -1, tSol |-> -1,
     verified |-> FALSE, verr |-> ErrNil, fetched |-> FALSE,
     data |-> NoData, cmdReads |-> 0, out |-> <<>>, failed |-> FALSE]
NoConns == [k \in Conns |-> FreeConn]

\* NewServer: no listener, the shutdown channel open, Start and Stop not
\* called.
NewServer ==
    [start |-> "idle", stop |-> "idle", socket |-> "none",
     listener |-> FALSE, shutdown |-> FALSE, last |-> "none"]

\* No Solve call is in progress.
NoSolve == [pc |-> "idle"]

\* No Generate call has just returned.
NoGen == [called |-> FALSE]

\* The goroutines that call the repository.
Threads == {"g1", "g2", "g3"}

\* A goroutine that has not called the repository yet.
IdleOp ==
    [pc |-> "idle", op |-> "none", c |-> NoChallenge, id |-> <<>>,
     blocked |-> FALSE, err |-> ErrNil, out |-> NoChallenge,
     seen |-> EmptyStore, before |-> EmptyStore, after |-> EmptyStore]

\* sync.RWMutex, unlocked: no writer and no readers hold it.
Unlocked == [w |-> FALSE, r |-> 0]
NoRep == [mu |-> Unlocked, ops |-> [t \in Threads |-> IdleOp]]

\* Nothing allocated, nothing stored, nothing held by the caller.
NoAlias ==
    [heap |-> <<>>, store |-> <<>>, held |-> {}, passed |-> {}, got |-> {},
     orig |-> <<>>, writes |-> 0]

DomainInit ==
    /\ now = 0
    /\ \E c \in Complexities, n \in Nonces \cup {<<>>}, e \in Times :
          /\ ch = Challenge(c, n, e)
          /\ signed = [done |-> FALSE, secret |-> <<>>, c |-> ch]
    /\ res = NoRes
    /\ svc = [secret |-> ServerSecret, complexity |-> 1,
              expirationTime |-> Expiration]
    /\ store = EmptyStore
    /\ issued = {}
    /\ call = NoCall
    /\ conns = NoConns
    /\ gen = NoGen
    /\ rep = NoRep
    /\ al = NoAlias
    /\ srv = NewServer
    /\ slv = NoSolve

\* The caller drops the result of the call just made.
DReturn ==
    /\ res # NoRes
    /\ res' = NoRes
    /\ UNCHANGED <<now, ch, signed>>
    /\ UNCHANGED <<svcVars, conns, gen, repVars, srv, slv>>

\* time passes
DTick ==
    /\ res = NoRes
    /\ now <= MaxTime
    /\ now' = now + 1
    /\ UNCHANGED <<ch, signed, res>>
    /\ UNCHANGED <<svcVars, conns, gen, repVars, srv, slv>>

\* challenge.Sign(secret)
DSign ==
    /\ res = NoRes
    /\ ch = signed.c
    /\ \E secret \in Secrets :
          /\ ch' = Sign(ch, secret)
          /\ signed' = [done |-> TRUE, secret |-> secret, c |-> ch']
          /\ res' = [op |-> "Sign", c |-> ch, secret |-> secret]
    /\ UNCHANGED now
    /\ UNCHANGED <<svcVars, conns, gen, repVars, srv, slv>>

\* The caller assigns one field of the challenge.
DSetField ==
    /\ res = NoRes
    /\ ch = signed.c
    /\ \/ \E c \in Complexities \ {ch.Complexity} :
             ch' = [ch EXCEPT !.Complexity = c]
       \/ \E n \in (Nonces \cup {<<>>}) \ {ch.Nonce} :
             ch' = [ch EXCEPT !.Nonce = n]
       \/ \E e \in Times \ {ch.ExpiresAt} :
             ch' = [ch EXCEPT !.ExpiresAt = e]
       \/ \E g \in {NilSlice, Slice(Garbage)} \ {ch.Signature} :
             ch' = [ch EXCEPT !.Signature = g]
       \/ ch' = [ch EXCEPT !.Solution = BigInt(MaxSolution)]
    /\ UNCHANGED <<now, signed, res>>
    /\ UNCHANGED <<svcVars, conns, gen, repVars, srv, slv>>

\* id := challenge.ID()
DID ==
    /\ res = NoRes
    /\ res' = [op |-> "ID", c |-> ch, ret |-> ID(ch)]
    /\ UNCHANGED <<now, ch, signed>>
    /\ UNCHANGED <<svcVars, conns, gen, repVars, srv, slv>>

\* ok := challenge.VerifySignature(secret)
DVerifySignature ==
    /\ res = NoRes
    /\ \E secret \in Secrets :
          res' = [op |-> "VerifySignature", c |-> ch, secret |-> secret,
                  ret |-> VerifySignature(ch, secret, now)]
    /\ UNCHANGED <<now, ch, signed>>
    /\ UNCHANGED <<svcVars, conns, gen, repVars, srv, slv>>

\* ok := challenge.VerifySolution(solution)
DVerifySolution ==
    /\ res = NoRes
    /\ \E solution \in Solutions :
          res' = [op |-> "VerifySolution", c |-> ch, solution |-> solution,
                  ret |-> SolutionOutcome(ch, solution, now)]
    /\ UNCHANGED <<now, ch, signed>>
    /\ UNCHANGED <<svcVars, conns, gen, repVars, srv, slv>>

DomainNext ==
    \/ DReturn
    \/ DTick
    \/ DSign
    \/ DSetField
    \/ DID
    \/ DVerifySignature
    \/ DVerifySolution

SpecDomain == DomainInit /\ [][DomainNext]_vars

\* ------------------------------------------- SpecService: Generate, Verify
\* A 32-byte id that is the id of no challenge.
GarbageID == [i \in 1..Size |-> 255]

\* What a client can make of a challenge it was given without knowing the
\* secret: the same challenge with a lower complexity or a later expiry (the
\* signature is the one it received).
Forgeries(c) ==
    {[c EXCEPT !.Complexity = c.Complexity - 1],
     [c EXCEPT !.ExpiresAt = c.ExpiresAt + TicksPerSecond]}

\* What a caller with access to the repository stores in place of an issued
\* challenge: a forgery, or the challenge with an overwritten signature.
Tampered(c) == Forgeries(c) \cup {[c EXCEPT !.Signature = Slice(Garbage)]}

\* The ids a caller submits to Verify.
SubmittedIDs ==
    {GarbageID} \cup {ID(c) : c \in issued}
        \cup {ID(f) : f \in UNION {Forgeries(c) : c \in issued}}

ServiceInit ==
    /\ now = 0
    /\ \E complexity \in 1..MaxComplexity :
          svc = [secret |-> ServerSecret, complexity |-> complexity,
                 expirationTime |-> Expiration]
    /\ store = EmptyStore
    /\ issued = {}
    /\ call = NoCall
    /\ ch = NoChallenge
    /\ signed = [done |-> FALSE, secret |-> <<>>, c |-> NoChallenge]
    /\ res = NoRes
    /\ conns = NoConns
    /\ gen = NoGen
    /\ rep = NoRep
    /\ al = NoAlias
    /\ srv = NewServer
    /\ slv = NoSolve

\* time passes
STick ==
    /\ call.pc # "done"
    /\ gen = NoGen
    /\ now <= MaxTime
    /\ now' = now + 1
    /\ UNCHANGED <<svcVars, domVars, conns, gen, repVars, srv, slv>>

\* challenge, err := service.Generate(ctx)
SGenerate ==
    /\ call.pc # "done"
    /\ gen = NoGen
    /\ \E rnd \in GenerateNonce :
          LET g == Generate(svc, store, rnd, now)
          IN  /\ g.err = ErrNil => Cardinality(issued) < MaxIssued
              /\ store' = g.store
              /\ issued' = IF g.err = ErrNil
                           THEN issued \cup {g.challenge}
                           ELSE issued
              /\ gen' = [called |-> TRUE, t |-> now, rnd |-> rnd,
                         before |-> store, challenge |-> g.challenge,
                         err |-> g.err]
    /\ UNCHANGED <<now, svc, call, domVars, conns, repVars, srv, slv>>

\* Generate has returned and the caller drops the result.
SGenerateReturn ==
    /\ gen # NoGen
    /\ gen' = NoGen
    /\ UNCHANGED <<now, svcVars, domVars, conns, repVars, srv, slv>>

\* repository.DeleteChallenge(ctx, id), called beside the service
SDelete ==
    /\ call.pc # "done"
    /\ gen = NoGen
    /\ \E id \in SubmittedIDs :
          store' = DeleteChallenge(store, id).store
    /\ UNCHANGED <<now, svc, issued, call, domVars, conns,
                   gen, repVars, srv, slv>>

\* repository.CreateChallenge(ctx, challenge), called beside the service
\* with a tampered copy of an issued challenge
SCreate ==
    /\ call.pc # "done"
    /\ gen = NoGen
    /\ Cardinality(DOMAIN store) < MaxIssued
    /\ \E c \in issued : \E t \in Tampered(c) :
          store' = CreateChallenge(store, t).store
    /\ UNCHANGED <<now, svc, issued, call, domVars, conns,
                   gen, repVars, srv, slv>>

\* service.Verify(ctx, id, solution), step 1: GetChallenge
SVerifyGet ==
    /\ call.pc = "idle"
    /\ gen = NoGen
    /\ \E id \in SubmittedIDs, solution \in Solutions :
          LET g == GetChallenge(store, id)
          IN  call' = [pc |-> IF g.err # ErrNil THEN "done" ELSE "sig",
                       id |-> id, solution |-> solution,
                       found |-> Hex(id) \in DOMAIN store,
                       challenge |-> g.challenge,
                       tSig |-> -1, tSol |-> -1, err |-> g.err]
    /\ UNCHANGED <<now, svc, store, issued, domVars, conns,
                   gen, repVars, srv, slv>>

\* service.Verify, step 2: challenge.VerifySignature(s.secret)
SVerifySignature ==
    /\ call.pc = "sig"
    /\ gen = NoGen
    /\ LET err == VerifyStepSignature(svc, call.challenge, now)
       IN  call' = [call EXCEPT !.tSig = now, !.err = err,
                                !.pc = IF err # ErrNil THEN "done" ELSE "sol"]
    /\ UNCHANGED <<now, svc, store, issued, domVars, conns,
                   gen, repVars, srv, slv>>

\* Verify deleting the challenge it has verified: a mutant of
\* SVerifySolution.
SVerifySolutionSingleUse ==
    /\ call.pc = "sol"
    /\ gen = NoGen
    /\ LET err == VerifyStepSolution(call.challenge, call.solution, now)
       IN  /\ call' = [call EXCEPT !.tSol = now, !.pc = "done", !.err = err]
           /\ store' = IF err = ErrNil
                       THEN DeleteChallenge(store, call.id).store
                       ELSE store
    /\ UNCHANGED <<now, svc, issued, domVars, conns, gen, repVars, srv, slv>>

\* service.Verify, step 3: challenge.VerifySolution(solution)
SVerifySolution ==
    /\ call.pc = "sol"
    /\ gen = NoGen
    /\ call' = [call EXCEPT
                  !.tSol = now, !.pc = "done",
                  !.err = VerifyStepSolution(call.challenge, call.solution,
                                             now)]
    /\ UNCHANGED <<now, svc, store, issued, domVars, conns,
                   gen, repVars, srv, slv>>

\* Verify returns and the caller drops the result.
SReturn ==
    /\ call.pc = "done"
    /\ call' = NoCall
    /\ UNCHANGED <<now, svc, store, issued, domVars, conns,
                   gen, repVars, srv, slv>>

ServiceNext ==
    \/ STick
    \/ SGenerate
    \/ SGenerateReturn
    \/ SDelete
    \/ SCreate
    \/ SVerifyGet
    \/ SVerifySignature
    \/ SVerifySolution
    \/ SReturn

SpecService == ServiceInit /\ [][ServiceNext]_vars

\* ------------------------------------------------- Spec: the TCP server
cmdGetChallenge == 1
cmdGetQuote == 2

\* A command byte the server does not know.
cmdUnknown == 255

\* The length prefix of a frame, in bytes.
LenBytes == 4

\* The solution field of a 0x02 request, in bytes.
SolLen == 32

\* The payloads a handler hands to writeResponse.
ChallengeObject(c) == [kind |-> "challenge", challenge |-> c]
QuoteObject(q) == [kind |-> "quote", quote |-> q]
ErrorObject(e) == [kind |-> "error", error |-> e]

\* Errors the handlers make themselves.
ErrUnknownCommand == "unknown command"
ErrReadID == "failed to read challenge ID"
ErrReadSolution == "failed to read solution"

\* quotes.GetRandomQuote(ctx): one of the collaborator's quotes, or its error.
Quotes == {"q1", "q2"}
NoQuote == "<nil>"
GetRandomQuote ==
    {[quote |-> q, err |-> ErrNil] : q \in Quotes}
        \cup {[quote |-> NoQuote, err |-> ErrNoQuotes]}

\* handleGetQuote after Verify, sending a quote whatever Verify returned.
AfterVerifyIgnoringError(verr, q) ==
    [fetched |-> TRUE, data |-> QuoteObject(q.quote)]

\* handleGetQuote after Verify returned verr: whether GetRandomQuote is
\* called (q is what it returns then) and the payload to send.
AfterVerify(verr, q) ==
    IF verr # ErrNil
    THEN [fetched |-> FALSE, data |-> ErrorObject(verr)]
    ELSE IF q.err # ErrNil
    THEN [fetched |-> TRUE, data |-> ErrorObject(q.err)]
    ELSE [fetched |-> TRUE, data |-> QuoteObject(q.quote)]

\* The texts that occur in payloads.
Texts ==
    <<ErrNotFound, ErrChallengeExists, ErrChallengeExpired,
      ErrInvalidSolution, ErrNoSolutionFound, ErrInvalidChallenge,
      ErrSolutionNotFound, ErrNoQuotes, ErrEntropy, ErrUnknownCommand,
      ErrReadID, ErrReadSolution, "q1", "q2">>

\* A JSON string: the i-th text is i letters between quotation marks.
TextBytes(t) ==
    LET i == CHOOSE n \in 1..Len(Texts) : Texts[n] = t
    IN  <<34>> \o [n \in 1..i |-> 96 + n] \o <<34>>

\* json.Marshal(data): an object between braces, with a key byte and the
\* values of its fields.
Marshal(data) ==
    IF data.kind = "error"
    THEN <<123, 101>> \o TextBytes(data.error) \o <<125>>
    ELSE IF data.kind = "quote"
    THEN <<123, 113>> \o TextBytes(data.quote) \o <<125>>
    ELSE <<123, 99>> \o NatBytes(data.challenge.Complexity) \o <<44>>
             \o data.challenge.Nonce \o <<44>>
             \o Int64BE(data.challenge.ExpiresAt) \o <<44>>
             \o data.challenge.Signature.bytes \o <<125>>

\* PutUint32 with the least significant byte first.
PutUint32LittleEndian(v) ==
    [i \in 1..LenBytes |-> (v \div Pow(256, i - 1)) % 256]

\* binary.BigEndian.PutUint32(lenBytes, v): the four low-order bytes of v,
\* the most significant first.
PutUint32(v) ==
    [i \in 1..LenBytes |-> (v \div Pow(256, LenBytes - i)) % 256]

\* The lengths a write of len bytes that comes up short can have written.
ShortWrites(len) == {0, 1, len - 1} \cap 0..(len - 1)

\* writeResponse: what reaches the connection.  SetWriteDeadline can fail
\* (nothing written), the write of the length can fail or come up short
\* (n of its bytes written), the write of the payload can fail or come up
\* short (none or a part of it written); otherwise both are written whole.
\* json.Marshal does not fail for a challenge, a quote or an error object.
WriteOutcomes(data) ==
    LET response == Marshal(data)
        lenBytes == PutUint32(Len(response))
    IN  {[out |-> SubSeq(lenBytes, 1, n), failed |-> TRUE] :
             n \in ShortWrites(LenBytes)}
            \cup {[out |-> lenBytes \o SubSeq(response, 1, n),
                   failed |-> TRUE] : n \in ShortWrites(Len(response))}
            \cup {[out |-> lenBytes \o response, failed |-> FALSE]}

\* The connections whose handler is about to call Generate.
Generating == {k \in Conns : conns[k].pc = "generate"}

\* The connections whose handler is in handleGetQuote.
Verifying ==
    {k \in Conns : conns[k].cmd = cmdGetQuote /\ conns[k].pc # "closed"}

\* A closed connection is released before anything else happens.
Settled == \A k \in Conns : conns[k].pc # "closed"

Init ==
    /\ now = 0
    /\ \E complexity \in 1..MaxComplexity :
          svc = [secret |-> ServerSecret, complexity |-> complexity,
                 expirationTime |-> Expiration]
    /\ store = EmptyStore
    /\ issued = {}
    /\ conns = NoConns
    /\ gen = NoGen
    /\ rep = NoRep
    /\ al = NoAlias
    /\ srv = NewServer
    /\ slv = NoSolve
    /\ call = NoCall
    /\ ch = NoChallenge
    /\ signed = [done |-> FALSE, secret |-> <<>>, c |-> NoChallenge]
    /\ res = NoRes

srvFrame == <<svc, call, domVars, gen, repVars, srv, slv>>

\* time passes
Tick ==
    /\ Settled
    /\ now <= MaxTime
    /\ now' = now + 1
    /\ UNCHANGED <<store, issued, conns, srvFrame>>

\* Start: listener.Accept() and go s.handleConnection(conn)
Accept(k) ==
    /\ Settled
    /\ conns[k].pc = "free"
    /\ conns' = [conns EXCEPT ![k].pc = "cmd"]
    /\ UNCHANGED <<now, store, issued, srvFrame>>

\* The switch of handleConnection with its default case calling
\* handleGetChallenge.
DispatchDefaultGetChallenge(cmd) ==
    [pc |-> IF cmd = cmdGetQuote THEN "readid" ELSE "generate",
     data |-> NoData]

\* switch cmd[0]: where the handler goes on and, for an unknown command, the
\* error handed to writeError.
Dispatch(cmd) ==
    IF cmd = cmdGetChallenge THEN [pc |-> "generate", data |-> NoData]
    ELSE IF cmd = cmdGetQuote THEN [pc |-> "readid", data |-> NoData]
    ELSE [pc |-> "write", data |-> ErrorObject(ErrUnknownCommand)]

\* handleConnection with one command buffer for all connections: the byte
\* read on one connection is the command of every handler that reads next.
handleConnectionSharedBuffer(k) ==
    /\ Settled
    /\ conns[k].pc = "cmd"
    /\ \E cmd \in {cmdGetChallenge, cmdUnknown} :
          /\ cmd = cmdGetChallenge =>
                 Cardinality(issued) + Cardinality(Generating) < MaxIssued
          /\ conns' = [j \in Conns |->
                 IF j = k
                 THEN [conns[j] EXCEPT !.cmd = cmd, !.cmdReads = @ + 1,
                                       !.pc = Dispatch(cmd).pc,
                                       !.data = Dispatch(cmd).data]
                 ELSE IF conns[j].pc = "cmd"
                 THEN [conns[j] EXCEPT !.cmd = cmd]
                 ELSE conns[j]]
    /\ UNCHANGED <<now, store, issued, srvFrame>>

\* handleConnection: the read of the command byte and the dispatch on it
handleConnection(k) ==
    /\ Settled
    /\ conns[k].pc = "cmd"
    /\ \/ \* SetReadDeadline failed: return
          conns' = [conns EXCEPT ![k].pc = "closed"]
       \/ \* io.ReadFull(conn, cmd) failed: return
          conns' = [conns EXCEPT ![k].pc = "closed", ![k].cmdReads = @ + 1]
       \/ \E cmd \in {cmdGetChallenge, cmdGetQuote, cmdUnknown} :
             /\ cmd = cmdGetChallenge =>
                    Cardinality(issued) + Cardinality(Generating) < MaxIssued
             /\ cmd = cmdGetQuote => Cardinality(Verifying) < MaxVerifying
             /\ conns' = [conns EXCEPT
                 ![k].cmd = cmd,
                 ![k].cmdReads = @ + 1,
                 ![k].pc = Dispatch(cmd).pc,
                 ![k].data = Dispatch(cmd).data]
    /\ UNCHANGED <<now, store, issued, srvFrame>>

\* handleGetChallenge
handleGetChallenge(k) ==
    /\ Settled
    /\ conns[k].pc = "generate"
    /\ \E rnd \in GenerateNonce :
          LET g == Generate(svc, store, rnd, now)
          IN  /\ store' = g.store
              /\ issued' = IF g.err = ErrNil
                           THEN issued \cup {g.challenge}
                           ELSE issued
              /\ conns' = [conns EXCEPT
                    ![k].pc = "write",
                    ![k].data = IF g.err # ErrNil
                                THEN ErrorObject(g.err)
                                ELSE ChallengeObject(g.challenge)]
    /\ UNCHANGED <<now, srvFrame>>

\* handleGetQuote: SetReadDeadline and the read of the challenge id
handleGetQuoteReadID(k) ==
    /\ Settled
    /\ conns[k].pc = "readid"
    /\ \/ \* SetReadDeadline failed: return
          conns' = [conns EXCEPT ![k].pc = "closed"]
       \/ \* io.ReadFull(conn, id) failed
          conns' = [conns EXCEPT ![k].pc = "write",
                                 ![k].data = ErrorObject(ErrReadID)]
       \/ \E id \in SubmittedIDs :
             conns' = [conns EXCEPT ![k].pc = "readsol", ![k].id = id]
    /\ UNCHANGED <<now, store, issued, srvFrame>>

\* handleGetQuote: the read of the solution
handleGetQuoteReadSolution(k) ==
    /\ Settled
    /\ conns[k].pc = "readsol"
    /\ \/ \* io.ReadFull(conn, solBytes) failed
          conns' = [conns EXCEPT ![k].pc = "write",
                                 ![k].data = ErrorObject(ErrReadSolution)]
       \/ \E solution \in Solutions :
             conns' = [conns EXCEPT
                          ![k].pc = "get",
                          ![k].solBytes = FillBytes(solution, SolLen)]
    /\ UNCHANGED <<now, store, issued, srvFrame>>

\* handleGetQuote, in challenges.Verify: GetChallenge
handleGetQuoteGet(k) ==
    /\ Settled
    /\ conns[k].pc = "get"
    /\ LET g == GetChallenge(store, conns[k].id)
       IN  conns' = [conns EXCEPT
               ![k].found = Hex(conns[k].id) \in DOMAIN store,
               ![k].challenge = g.challenge,
               ![k].verr = g.err,
               ![k].verified = g.err # ErrNil,
               ![k].pc = IF g.err # ErrNil THEN "respond" ELSE "signature"]
    /\ UNCHANGED <<now, store, issued, srvFrame>>

\* handleGetQuote, in challenges.Verify: VerifySignature
handleGetQuoteSignature(k) ==
    /\ Settled
    /\ conns[k].pc = "signature"
    /\ LET err == VerifyStepSignature(svc, conns[k].challenge, now)
       IN  conns' = [conns EXCEPT
               ![k].tSig = now,
               ![k].verr = err,
               ![k].verified = err # ErrNil,
               ![k].pc = IF err # ErrNil THEN "respond" ELSE "solution"]
    /\ UNCHANGED <<now, store, issued, srvFrame>>

\* handleGetQuote, in challenges.Verify: VerifySolution
handleGetQuoteSolution(k) ==
    /\ Settled
    /\ conns[k].pc = "solution"
    /\ conns' = [conns EXCEPT
          ![k].tSol = now,
          ![k].verr = VerifyStepSolution(conns[k].challenge,
                                         SetBytes(conns[k].solBytes), now),
          ![k].verified = TRUE,
          ![k].pc = "respond"]
    /\ UNCHANGED <<now, store, issued, srvFrame>>

\* handleGetQuote after Verify: the error, or GetRandomQuote and its result
handleGetQuoteRespond(k) ==
    /\ Settled
    /\ conns[k].pc = "respond"
    /\ \E q \in GetRandomQuote :
          LET r == AfterVerify(conns[k].verr, q)
          IN  conns' = [conns EXCEPT ![k].fetched = r.fetched,
                                     ![k].data = r.data,
                                     ![k].pc = "write"]
    /\ UNCHANGED <<now, store, issued, srvFrame>>

\* writeResponse ending the accept loop when a write fails.
writeResponseFatal(k) ==
    /\ Settled
    /\ conns[k].pc = "write"
    /\ \E w \in WriteOutcomes(conns[k].data) :
          /\ conns' = [conns EXCEPT ![k].out = @ \o w.out,
                                    ![k].failed = w.failed,
                                    ![k].pc = "closed"]
          /\ srv' = IF w.failed /\ srv.start \in {"select", "accept"}
                    THEN [srv EXCEPT !.start = "returned"]
                    ELSE srv
    /\ UNCHANGED <<now, store, issued, svc, call, domVars, gen, repVars, slv>>

\* writeResponse writing nothing for an error object.
writeResponseDroppingErrors(k) ==
    /\ Settled
    /\ conns[k].pc = "write"
    /\ \E w \in WriteOutcomes(conns[k].data) :
          conns' = [conns EXCEPT
              ![k].out = IF conns[k].data.kind = "error" THEN @
                         ELSE @ \o w.out,
              ![k].failed = IF conns[k].data.kind = "error" THEN FALSE
                            ELSE w.failed,
              ![k].pc = "closed"]
    /\ UNCHANGED <<now, store, issued, srvFrame>>

\* writeResponse answering and then reading the next command.
writeResponseKeepAlive(k) ==
    /\ Settled
    /\ conns[k].pc = "write"
    /\ \E w \in WriteOutcomes(conns[k].data) :
          conns' = [conns EXCEPT ![k].out = @ \o w.out,
                                 ![k].failed = w.failed,
                                 ![k].pc = "cmd"]
    /\ UNCHANGED <<now, store, issued, srvFrame>>

\* writeResponse (writeError is writeResponse of an error object), and the
\* deferred conn.Close()
writeResponse(k) ==
    /\ Settled
    /\ conns[k].pc = "write"
    /\ \E w \in WriteOutcomes(conns[k].data) :
          conns' = [conns EXCEPT ![k].out = @ \o w.out,
                                 ![k].failed = w.failed,
                                 ![k].pc = "closed"]
    /\ UNCHANGED <<now, store, issued, srvFrame>>

\* The closed connection is forgotten; its name is free for the next one.
Release(k) ==
    /\ conns[k].pc = "closed"
    /\ conns' = [conns EXCEPT ![k] = FreeConn]
    /\ UNCHANGED <<now, store, issued, srvFrame>>

Next ==
    \/ Tick
    \/ \E k \in Conns :
          \/ Accept(k)
          \/ handleConnection(k)
          \/ handleGetChallenge(k)
          \/ handleGetQuoteReadID(k)
          \/ handleGetQuoteReadSolution(k)
          \/ handleGetQuoteGet(k)
          \/ handleGetQuoteSignature(k)
          \/ handleGetQuoteSolution(k)
          \/ handleGetQuoteRespond(k)
          \/ writeResponse(k)
          \/ Release(k)

Spec == Init /\ [][Next]_vars

\* ------------------------------- SpecRepository: the repository's lock
\* The challenges the goroutines create: two with the same id that differ in
\* signature and solution, and one with another id.
RepoA == Sign(Challenge(1, RandomNonce(1), Expiration), ServerSecret)
RepoADup ==
    [RepoA EXCEPT !.Signature = Slice(Garbage),
                  !.Solution = BigInt(MaxSolution)]
RepoB == Challenge(1, RandomNonce(2), Expiration)
RepoCreates == {RepoA, RepoADup, RepoB}
RepoIDs == {ID(RepoA), ID(RepoB)}

\* A reader entering while a writer is inside.
CanRLockBesideWriter(mu) == TRUE

\* RWMutex.RLock returns when no writer holds the lock.  (A waiting writer
\* also holds new readers back; that only removes interleavings.)
CanRLock(mu) == ~mu.w

\* A writer entering while another writer is inside.
CanLockBesideWriter(mu) == mu.r = 0

\* RWMutex.Lock returns when no writer and no reader holds the lock.
CanLock(mu) == ~mu.w /\ mu.r = 0

IsWriter(o) == o.op \in {"create", "delete"}
Inside(o) == o.pc \in {"check", "act", "unlock"}
Acted(o) == o.pc \in {"unlock", "done"}

RepositoryInit ==
    /\ now = 0
    /\ store = EmptyStore
    /\ rep = NoRep
    /\ svc = [secret |-> ServerSecret, complexity |-> 1,
              expirationTime |-> Expiration]
    /\ issued = {}
    /\ call = NoCall
    /\ conns = NoConns
    /\ gen = NoGen
    /\ al = NoAlias
    /\ srv = NewServer
    /\ slv = NoSolve
    /\ ch = NoChallenge
    /\ signed = [done |-> FALSE, secret |-> <<>>, c |-> NoChallenge]
    /\ res = NoRes

repFrame == <<now, svc, issued, call, conns, gen, al, srv, slv, domVars>>

\* a goroutine calls CreateChallenge, GetChallenge or DeleteChallenge and
\* reaches r.Lock() or r.RLock()
RCall(t) ==
    /\ rep.ops[t].pc = "idle"
    /\ \/ \E c \in RepoCreates :
             rep' = [rep EXCEPT
                 !.ops[t] = [@ EXCEPT !.pc = "lock", !.op = "create",
                                      !.c = c, !.id = ID(c),
                                      !.blocked = ~CanLock(rep.mu)]]
       \/ \E id \in RepoIDs, op \in {"get", "delete"} :
             rep' = [rep EXCEPT
                 !.ops[t] = [@ EXCEPT
                     !.pc = "lock", !.op = op, !.id = id,
                     !.blocked = IF op = "get" THEN ~CanRLock(rep.mu)
                                 ELSE ~CanLock(rep.mu)]]
    /\ UNCHANGED <<store, repFrame>>

\* r.Lock() or r.RLock() returns
RAcquire(t) ==
    /\ rep.ops[t].pc = "lock"
    /\ IF IsWriter(rep.ops[t])
       THEN /\ CanLock(rep.mu)
            /\ rep' = [rep EXCEPT !.mu.w = TRUE, !.ops[t].pc = "check"]
       ELSE /\ CanRLock(rep.mu)
            /\ rep' = [rep EXCEPT !.mu.r = @ + 1, !.ops[t].pc = "check"]
    /\ UNCHANGED <<store, repFrame>>

\* the lookup in the map: _, exists := r.challenges[id]
RCheck(t) ==
    /\ rep.ops[t].pc = "check"
    /\ rep' = [rep EXCEPT !.ops[t].pc = "act", !.ops[t].seen = store]
    /\ UNCHANGED <<store, repFrame>>

\* the rest of the body, deciding on what the lookup saw: the insert of the
\* copy, the copy of the entry found, or the delete
RAct(t) ==
    /\ rep.ops[t].pc = "act"
    /\ LET o == rep.ops[t]
           created == CreateChallenge(o.seen, o.c)
           got == GetChallenge(o.seen, o.id)
           deleted == DeleteChallenge(o.seen, o.id)
           key == Hex(o.id)
           err == CASE o.op = "create" -> created.err
                    [] o.op = "get" -> got.err
                    [] o.op = "delete" -> deleted.err
           after ==
               CASE o.op = "create" /\ err = ErrNil ->
                        (key :> created.store[key]) @@ store
                 [] o.op = "delete" /\ err = ErrNil ->
                        [k \in DOMAIN store \ {key} |-> store[k]]
                 [] OTHER -> store
       IN  /\ store' = after
           /\ rep' = [rep EXCEPT
                 !.ops[t] = [@ EXCEPT
                     !.pc = "unlock", !.err = err,
                     !.out = IF o.op = "get" THEN got.challenge
                             ELSE NoChallenge,
                     !.before = store, !.after = after]]
    /\ UNCHANGED repFrame

\* the deferred r.Unlock() or r.RUnlock(), and the return
RUnlock(t) ==
    /\ rep.ops[t].pc = "unlock"
    /\ IF IsWriter(rep.ops[t])
       THEN rep' = [rep EXCEPT !.mu.w = FALSE, !.ops[t].pc = "done"]
       ELSE rep' = [rep EXCEPT !.mu.r = @ - 1, !.ops[t].pc = "done"]
    /\ UNCHANGED <<store, repFrame>>

RepositoryNext ==
    \E t \in Threads :
        \/ RCall(t)
        \/ RAcquire(t)
        \/ RCheck(t)
        \/ RAct(t)
        \/ RUnlock(t)

SpecRepository == RepositoryInit /\ [][RepositoryNext]_vars

\* ------------------------------------ SpecAlias: pointers and deep copies
\* The heap is a sequence of objects, a pointer is an index into it and 0 is
\* nil.  A *big.Int and the backing array of a []byte are objects with a
\* value v; a *Challenge is an object whose Complexity, Nonce, Signature and
\* Solution are pointers and whose ExpiresAt is a value.
IntObject(v) == [kind |-> "int", v |-> v]
BytesObject(b) == [kind |-> "bytes", v |-> b]

\* The heap after allocating the objects in cells.
Alloc(h, cells) == h \o cells

\* &domain.Challenge{...} built from the value c: the new heap and the
\* pointer to the struct.
NewChallenge(h, c) ==
    LET n == Len(h)
        sig == IF c.Signature.nil THEN <<>>
               ELSE <<BytesObject(c.Signature.bytes)>>
        sol == IF c.Solution.nil THEN <<>> ELSE <<IntObject(c.Solution.v)>>
        struct ==
            [kind |-> "struct", Complexity |-> n + 1, Nonce |-> n + 2,
             ExpiresAt |-> c.ExpiresAt,
             Signature |-> IF c.Signature.nil THEN 0 ELSE n + 3,
             Solution |-> IF c.Solution.nil THEN 0 ELSE n + 3 + Len(sig)]
    IN  [heap |-> Alloc(h, <<IntObject(c.Complexity), BytesObject(c.Nonce)>>
                               \o sig \o sol \o <<struct>>),
         ptr |-> n + 3 + Len(sig) + Len(sol)]

\* The value of the challenge p points to.
Deref(h, p) ==
    [Complexity |-> h[h[p].Complexity].v,
     Nonce |-> IF h[p].Nonce = 0 THEN <<>> ELSE h[h[p].Nonce].v,
     ExpiresAt |-> h[p].ExpiresAt,
     Signature |-> IF h[p].Signature = 0 THEN NilSlice
                   ELSE Slice(h[h[p].Signature].v),
     Solution |-> IF h[p].Solution = 0 THEN NilInt
                  ELSE BigInt(h[h[p].Solution].v)]

\* A copy of the struct only: its fields point to the objects of the
\* original.
ShallowCopy(h, p) ==
    [heap |-> Alloc(h, <<h[p]>>), ptr |-> Len(h) + 1]

\* challengeCopy := &domain.Challenge{...} with new(big.Int).Set, make and
\* copy: a new struct with a new object for every field.
DeepCopy(h, p) == NewChallenge(h, CopyChallenge(Deref(h, p)))

\* The objects reachable from the challenge p points to.
Reach(h, p) ==
    {p, h[p].Complexity, h[p].Nonce, h[p].Signature, h[p].Solution} \ {0}

\* The challenges the caller builds.
AliasChallenges == {RepoADup}

AliasInit ==
    /\ now = 0
    /\ al = NoAlias
    /\ srv = NewServer
    /\ slv = NoSolve
    /\ rep = NoRep
    /\ store = EmptyStore
    /\ svc = [secret |-> ServerSecret, complexity |-> 1,
              expirationTime |-> Expiration]
    /\ issued = {}
    /\ call = NoCall
    /\ conns = NoConns
    /\ gen = NoGen
    /\ ch = NoChallenge
    /\ signed = [done |-> FALSE, secret |-> <<>>, c |-> NoChallenge]
    /\ res = NoRes

aliasFrame ==
    <<now, store, rep, svc, issued, call, conns, gen, srv, slv, domVars>>

\* the caller builds a challenge
ANew ==
    /\ \E c \in AliasChallenges :
          LET new == NewChallenge(al.heap, c)
          IN  /\ Len(new.heap) <= MaxHeap
              /\ al' = [al EXCEPT !.heap = new.heap,
                                  !.held = @ \cup {new.ptr}]
    /\ UNCHANGED aliasFrame

\* repo.CreateChallenge(ctx, p)
ACreate ==
    /\ \E p \in al.held :
          LET key == Hex(ID(Deref(al.heap, p)))
              copy == DeepCopy(al.heap, p)
          IN  /\ key \notin DOMAIN al.store
              /\ Len(copy.heap) <= MaxHeap
              /\ al' = [al EXCEPT
                    !.heap = copy.heap,
                    !.store = (key :> copy.ptr) @@ @,
                    !.passed = @ \cup {p},
                    !.orig = (key :> Deref(al.heap, p)) @@ @]
    /\ UNCHANGED aliasFrame

\* The pointer GetChallenge returns for a key of the map, and the heap then.
AliasGet(a, key) == DeepCopy(a.heap, a.store[key])

\* repo.GetChallenge(ctx, id) for an id in the map
AGet ==
    /\ \E key \in DOMAIN al.store :
          LET copy == AliasGet(al, key)
          IN  /\ Len(copy.heap) <= MaxHeap
              /\ al' = [al EXCEPT !.heap = copy.heap,
                                  !.held = @ \cup {copy.ptr},
                                  !.got = @ \cup {copy.ptr}]
    /\ UNCHANGED aliasFrame

\* the caller writes through a pointer it holds: Complexity.SetInt64(200),
\* Nonce[0] = 0xff, Signature[0] = 0xff, Solution.SetInt64(84)
AWrite ==
    /\ al.writes < MaxWrites
    /\ \E p \in al.held :
          LET s == al.heap[p]
          IN  \/ al' = [al EXCEPT !.heap[s.Complexity].v = 200,
                                  !.writes = @ + 1]
              \/ /\ s.Nonce # 0
                 /\ Len(al.heap[s.Nonce].v) > 0
                 /\ al' = [al EXCEPT !.heap[s.Nonce].v[1] = 255,
                                     !.writes = @ + 1]
              \/ /\ s.Signature # 0
                 /\ Len(al.heap[s.Signature].v) > 0
                 /\ al' = [al EXCEPT !.heap[s.Signature].v[1] = 255,
                                     !.writes = @ + 1]
              \/ /\ s.Solution # 0
                 /\ al' = [al EXCEPT !.heap[s.Solution].v = 84,
                                     !.writes = @ + 1]
    /\ UNCHANGED aliasFrame

\* the caller assigns to a field of a struct it holds: p.Nonce = nil,
\* p.Signature = nil, p.Solution = nil, p.ExpiresAt = ..
AAssign ==
    /\ al.writes < MaxWrites
    /\ \E p \in al.held :
          \/ \E f \in {"Nonce", "Signature", "Solution"} :
                al' = [al EXCEPT !.heap[p][f] = 0, !.writes = @ + 1]
          \/ al' = [al EXCEPT
                 !.heap[p].ExpiresAt = Expiration + TicksPerSecond,
                 !.writes = @ + 1]
    /\ UNCHANGED aliasFrame

\* repo.DeleteChallenge(ctx, id) for an id in the map:
\* delete(r.challenges, hexID)
ADelete ==
    /\ \E key \in DOMAIN al.store :
          al' = [al EXCEPT
                    !.store = [k \in DOMAIN al.store \ {key} |-> al.store[k]]]
    /\ UNCHANGED aliasFrame

AliasNext == ANew \/ ACreate \/ AGet \/ AWrite \/ AAssign \/ ADelete

SpecAlias == AliasInit /\ [][AliasNext]_vars

\* ------------------------------------------------- SpecDomain: the claims
\* The digest VerifySolution inspects for challenge c and solution s.
SolutionDigest(c, s) == Sum256(ID(c) \o BigBytes(s))

\* The first n bytes of digest d exist and are all zero.
FirstBytesZero(d, n) == n <= Len(d) /\ \A i \in 1..n : d[i] = 0

\* The signed fields of c and d are equal.
SameSignedFields(c, d) ==
    /\ c.Complexity = d.Complexity
    /\ c.Nonce = d.Nonce
    /\ c.ExpiresAt = d.ExpiresAt

\* c differs from d in exactly one of complexity, nonce and expiresAt.
OneSignedFieldChanged(c, d) ==
    Cardinality({f \in {"Complexity", "Nonce", "ExpiresAt"} : c[f] # d[f]}) = 1

\* c differs from d in a signed field as the id encodes it: the magnitude of
\* the complexity, the nonce, or the whole second of expiresAt.
EncodedFieldChanged(c, d) ==
    \/ Abs(c.Complexity) # Abs(d.Complexity)
    \/ c.Nonce # d.Nonce
    \/ Unix(c.ExpiresAt) # Unix(d.ExpiresAt)

C6_SignThenVerifyIffUnexpired ==
    (/\ res.op = "VerifySignature"
     /\ signed.done
     /\ res.secret = signed.secret
     /\ SameSignedFields(res.c, signed.c)
     /\ res.c.Signature = signed.c.Signature)
    => (res.ret <=> now <= res.c.ExpiresAt)

\* C6 witness: VerifySignature was called with the signing secret on the
\* untouched challenge at the very instant it expires.
C6_Witness ==
    /\ res.op = "VerifySignature"
    /\ signed.done
    /\ res.secret = signed.secret
    /\ res.c = signed.c
    /\ now = res.c.ExpiresAt
    /\ res.ret

\* C7 as stated: VerifySignature returns false without a signature, with a
\* secret other than the signing one, and when any one of complexity, nonce
\* or expiresAt was changed to a different value after signing.
C7_AsStated ==
    (/\ res.op = "VerifySignature"
     /\ signed.done
     /\ \/ res.c.Signature.nil
        \/ res.secret # signed.secret
        \/ OneSignedFieldChanged(res.c, signed.c))
    => ~res.ret

\* C7 amended: VerifySignature returns false without a signature, with a
\* secret other than the signing one, and when the magnitude of the
\* complexity, the nonce, or the whole second of expiresAt was changed after
\* signing.
C7_TamperDetected ==
    (/\ res.op = "VerifySignature"
     /\ signed.done
     /\ \/ res.c.Signature.nil
        \/ res.secret # signed.secret
        \/ EncodedFieldChanged(res.c, signed.c))
    => ~res.ret

\* C7 witness: VerifySignature with the signing secret has rejected an
\* unexpired challenge whose nonce was changed after signing.
C7_Witness ==
    /\ res.op = "VerifySignature"
    /\ signed.done
    /\ res.secret = signed.secret
    /\ res.c.Nonce # signed.c.Nonce
    /\ res.c.Signature = signed.c.Signature
    /\ now <= res.c.ExpiresAt
    /\ ~res.ret

\* C8: the id is a function of (complexity, nonce, expiresAt) only: it equals
\* the id of the challenge with the same three fields and no signature and
\* no solution, and computing it leaves the challenge as it was.
C8_IDOfSignedFieldsOnly ==
    res.op = "ID"
    => /\ res.ret = ID(Challenge(res.c.Complexity, res.c.Nonce,
                                  res.c.ExpiresAt))
       /\ SameSignedFields(res.c, signed.c) => res.ret = ID(signed.c)
       /\ ch = res.c

\* C8 witness: ID was computed on a challenge that carries a signature and a
\* solution.
C8_Witness ==
    /\ res.op = "ID"
    /\ ~res.c.Signature.nil
    /\ ~res.c.Solution.nil

\* C9 as stated: changing any one of complexity, nonce or expiresAt to a
\* different value, keeping the other two, changes the id.
C9_AsStated ==
    (res.op = "ID" /\ OneSignedFieldChanged(res.c, signed.c))
    => res.ret # ID(signed.c)

\* C9 amended: changing the magnitude of the complexity, the nonce, or the
\* whole second of expiresAt, keeping the other two, changes the id.
C9_IDSeparatesEncodedFields ==
    (/\ res.op = "ID"
     /\ OneSignedFieldChanged(res.c, signed.c)
     /\ EncodedFieldChanged(res.c, signed.c))
    => res.ret # ID(signed.c)

\* C9 witness: ID was computed on a challenge whose nonce alone differs from
\* the challenge it was made from.
C9_Witness ==
    /\ res.op = "ID"
    /\ res.c.Nonce # signed.c.Nonce
    /\ res.c.Complexity = signed.c.Complexity
    /\ res.c.ExpiresAt = signed.c.ExpiresAt
    /\ res.ret # ID(signed.c)

\* ------------------------------------------------ SpecService: the claims
\* The signature Sign puts on the challenge under the service's secret.
CorrectlySigned(c) ==
    /\ c.Signature.nil = FALSE
    /\ c.Signature.bytes = Sign(c, svc.secret).Signature.bytes

\* The solution hashes with the nonce to the required leading zero bytes.
SolvedBy(c, solution) ==
    /\ c.Complexity >= 1
    /\ FirstBytesZero(SolutionDigest(c, solution), c.Complexity)

\* The error Verify has to return for a call that looked the challenge up
\* (found or not), checked the signature at tSig and the solution at tSol.
ExpectedVerifyError ==
    IF ~call.found THEN ErrNotFound
    ELSE IF ~VerifySignature(call.challenge, svc.secret, call.tSig)
    THEN ErrInvalidChallenge
    ELSE IF ~VerifySolution(call.challenge, call.solution, call.tSol)
    THEN ErrInvalidSolution
    ELSE ErrNil

\* C3: Verify checks in a fixed order and returns the first failure: NotFound
\* when the store has no entry for the id; otherwise InvalidChallenge when the
\* signature check fails, whatever the solution is; otherwise InvalidSolution
\* when the solution check fails; otherwise nil.  The three errors and nil are
\* four different values.
C3_VerifyOrder ==
    /\ Cardinality({ErrNotFound, ErrInvalidChallenge, ErrInvalidSolution,
                    ErrNil}) = 4
    /\ call.pc = "done" =>
          /\ call.err = ExpectedVerifyError
          /\ (call.found /\ call.tSig < 0) = FALSE
          /\ call.tSol >= 0 => call.tSig >= 0 /\ call.tSol >= call.tSig

\* A stored challenge whose signature was overwritten is refused with
\* InvalidChallenge although it is unexpired and the solution solves it.
C3_Witness ==
    /\ call.pc = "done"
    /\ call.found
    /\ call.err = ErrInvalidChallenge
    /\ call.tSig <= call.challenge.ExpiresAt
    /\ SolvedBy(call.challenge, call.solution)

\* C10: for a challenge found in the store, Verify does not return nil when
\* either check ran after expiresAt, and it returns nil when its checks ended
\* at expiresAt exactly on a correctly signed challenge with a solving
\* solution.
C10_VerifyExpiry ==
    (call.pc = "done" /\ call.found) =>
        LET c == call.challenge
            last == IF call.tSol >= 0 THEN call.tSol ELSE call.tSig
        IN  /\ (call.tSig > c.ExpiresAt \/ call.tSol > c.ExpiresAt)
                  => call.err # ErrNil
            /\ (/\ last = c.ExpiresAt
                /\ CorrectlySigned(c)
                /\ SolvedBy(c, call.solution))
                  => call.err = ErrNil

\* Verify accepted a stored challenge whose solution check ran at expiresAt.
C10_Witness ==
    /\ call.pc = "done"
    /\ call.found
    /\ call.err = ErrNil
    /\ call.tSol = call.challenge.ExpiresAt

\* --------------------------------------------------------- Spec: the claims
\* The frame of a payload: its length in four bytes, most significant
\* first, and then the payload.
FrameOf(payload) ==
    [i \in 1..LenBytes |-> (Len(payload) \div Pow(256, LenBytes - i)) % 256]
        \o payload

\* The frame of the response reached the connection completely.
CompleteFrame(k) ==
    /\ conns[k].data # NoData
    /\ conns[k].out = FrameOf(Marshal(conns[k].data))

\* What was written is a prefix of one frame.
FramePrefix(k) ==
    \/ conns[k].out = <<>>
    \/ /\ conns[k].data # NoData
       /\ IsPrefix(conns[k].out, FrameOf(Marshal(conns[k].data)))

\* Verify returned nil on connection k for the id and the solution read on
\* that connection.
VerifySucceeded(k) ==
    /\ conns[k].verified
    /\ conns[k].verr = ErrNil
    /\ conns[k].found
    /\ ID(conns[k].challenge) = conns[k].id
    /\ VerifySignature(conns[k].challenge, svc.secret, conns[k].tSig)
    /\ VerifySolution(conns[k].challenge, SetBytes(conns[k].solBytes),
                      conns[k].tSol)

\* Verify returned an error on connection k.
VerifyFailed(k) == conns[k].verified /\ conns[k].verr # ErrNil

\* On a 0x02 connection a quote is fetched, and is the payload, only after
\* Verify returned nil for what was read on that connection.
QuoteOnlyAfterVerify(k) ==
    (conns[k].fetched \/ conns[k].data.kind = "quote") => VerifySucceeded(k)

\* C1 as stated: a quote is fetched and sent only after Verify succeeded on
\* the same connection, and whenever Verify returned an error no quote is
\* fetched or sent and the error object is sent.
C1_AsStated ==
    \A k \in Conns :
        conns[k].cmd = cmdGetQuote =>
            /\ QuoteOnlyAfterVerify(k)
            /\ (conns[k].pc = "closed" /\ VerifyFailed(k)) =>
                  /\ ~conns[k].fetched
                  /\ conns[k].data = ErrorObject(conns[k].verr)
                  /\ CompleteFrame(k)

\* C1: a quote is fetched and sent only after Verify succeeded on the same
\* connection; whenever Verify returned an error no quote is fetched, the
\* only payload handed to writeResponse is the error object of that error,
\* what reaches the connection is a prefix of its frame, and the whole frame
\* when no write on the connection failed.
C1_QuoteOnlyAfterVerify ==
    \A k \in Conns :
        conns[k].cmd = cmdGetQuote =>
            /\ QuoteOnlyAfterVerify(k)
            /\ (conns[k].pc = "closed" /\ VerifyFailed(k)) =>
                  /\ ~conns[k].fetched
                  /\ conns[k].data = ErrorObject(conns[k].verr)
                  /\ FramePrefix(k)
                  /\ ~conns[k].failed => CompleteFrame(k)

\* Verify failed on a 0x02 connection and the error frame was sent whole.
C1_Witness ==
    \E k \in Conns :
        /\ conns[k].cmd = cmdGetQuote
        /\ conns[k].pc = "closed"
        /\ VerifyFailed(k)
        /\ conns[k].data = ErrorObject(conns[k].verr)
        /\ CompleteFrame(k)

\* C2: a quote is the response on a connection only if the lookup found a
\* challenge that Generate had issued, stored under the submitted id, of the
\* configured complexity, signed under the server secret, unexpired at both
\* checks, and the digest of id and solution has that many leading zero
\* bytes; and no quote is the response to an id Generate never issued.
C2_QuoteOnlyForIssuedSolved ==
    \A k \in Conns :
        /\ conns[k].data.kind = "quote" =>
              LET c == conns[k].challenge
              IN  /\ conns[k].found
                  /\ \E g \in issued : CopyChallenge(g) = c
                  /\ ID(c) = conns[k].id
                  /\ c.Complexity = svc.complexity
                  /\ CorrectlySigned(c)
                  /\ conns[k].tSig \in 0..c.ExpiresAt
                  /\ conns[k].tSol \in conns[k].tSig..c.ExpiresAt
                  /\ svc.complexity >= 1
                  /\ FirstBytesZero(
                         Sum256(conns[k].id
                                    \o BigBytes(SetBytes(conns[k].solBytes))),
                         svc.complexity)
        /\ conns[k].data.kind = "quote" =>
              conns[k].id \in {ID(g) : g \in issued}

\* A quote was sent whole for an issued challenge, solved.
C2_Witness ==
    \E k \in Conns :
        /\ conns[k].pc = "closed"
        /\ conns[k].data.kind = "quote"
        /\ CompleteFrame(k)
        /\ conns[k].id \in {ID(g) : g \in issued}

\* ------------------------------------------ Spec: the handler's states
\* The state of the handler of a connection.
StateOf(c) ==
    IF c.pc = "cmd" THEN "AwaitCommand"
    ELSE IF c.pc = "generate" THEN "GetChallenge"
    ELSE IF c.pc = "readid" THEN "AwaitChallengeID"
    ELSE IF c.pc = "readsol" THEN "AwaitSolution"
    ELSE IF c.pc \in {"get", "signature", "solution"} THEN "Verify"
    ELSE IF c.pc = "respond"
    THEN (IF c.verr = ErrNil THEN "FetchContent" ELSE "Verify")
    ELSE IF c.pc = "write" THEN "Respond"
    ELSE IF c.pc = "closed" THEN "Closed"
    ELSE "None"

\* The place of a state in the order of the states; the two commands'
\* first states share a place.
StateRank(st) ==
    CASE st = "None" -> 0
      [] st = "AwaitCommand" -> 1
      [] st \in {"GetChallenge", "AwaitChallengeID"} -> 2
      [] st = "AwaitSolution" -> 3
      [] st = "Verify" -> 4
      [] st = "FetchContent" -> 5
      [] st = "Respond" -> 6
      [] st = "Closed" -> 7

\* The place of a handler's position in the code.
PcRank(pc) ==
    CASE pc = "free" -> 0
      [] pc = "cmd" -> 1
      [] pc \in {"generate", "readid"} -> 2
      [] pc = "readsol" -> 3
      [] pc = "get" -> 4
      [] pc = "signature" -> 5
      [] pc = "solution" -> 6
      [] pc = "respond" -> 7
      [] pc = "write" -> 8
      [] pc = "closed" -> 9

\* A step of the handler of connection k goes forward in the code and never
\* back in the order of the states, reads no second command byte and keeps
\* the command it read.
ForwardStep(k) ==
    /\ PcRank(conns'[k].pc) > PcRank(conns[k].pc)
    /\ StateRank(StateOf(conns'[k])) >= StateRank(StateOf(conns[k]))
    /\ StateOf(conns[k]) # "Verify" =>
          StateRank(StateOf(conns'[k])) > StateRank(StateOf(conns[k]))
    /\ conns'[k].cmdReads <= 1
    /\ conns'[k].cmd # 0 => conns'[k].cmdReads = 1
    /\ conns[k].cmd # 0 =>
          /\ conns'[k].cmd = conns[k].cmd
          /\ conns'[k].cmdReads = conns[k].cmdReads

\* C18: every step of a connection's handler moves it forward in the order
\* AwaitCommand, (GetChallenge | AwaitChallengeID, AwaitSolution, Verify,
\* FetchContent), Respond, Closed, never back to a state it has left; the
\* command byte is read once, and once a command is read no other is read on
\* that connection; only the end of the connection takes it out of Closed.
C18_StatesInOrder ==
    [][\A k \in Conns :
          conns'[k] # conns[k] =>
              \/ conns[k].pc = "closed" /\ conns'[k] = FreeConn
              \/ ForwardStep(k)]_vars

\* C18 witness: a connection went through every state of a 0x02 request and
\* is closed.
C18_Witness ==
    \E k \in Conns :
        /\ conns[k].pc = "closed"
        /\ conns[k].cmd = cmdGetQuote
        /\ conns[k].cmdReads = 1
        /\ conns[k].verified
        /\ conns[k].fetched
        /\ conns[k].out # <<>>

\* --------------------------------------------- Spec: an unknown command
\* The handler of connection k did nothing but prepare the error of an
\* unknown command.
OnlyUnknownCommandError(c) ==
    /\ c.pc \in {"write", "closed"}
    /\ c.id = <<>>
    /\ c.solBytes = <<>>
    /\ ~c.found
    /\ ~c.verified
    /\ ~c.fetched
    /\ c.data = ErrorObject(ErrUnknownCommand)

\* C19 as stated: after an unknown command byte the handler reads nothing
\* more, calls neither Generate, Verify nor GetRandomQuote, leaves the store
\* unchanged, and the closed connection has received the whole frame of the
\* unknown-command error.
C19_AsStated ==
    [][\A k \in Conns :
          (conns'[k].cmd = cmdUnknown /\ conns'[k] # conns[k]) =>
              /\ OnlyUnknownCommandError(conns'[k])
              /\ store' = store
              /\ issued' = issued
              /\ conns'[k].pc = "closed" => CompleteFrame(k)']_vars

\* C19: after an unknown command byte the handler reads nothing more, calls
\* neither Generate, Verify nor GetRandomQuote, leaves the store unchanged,
\* hands the unknown-command error object to writeResponse and closes; what
\* reaches the connection is a prefix of that object's frame, and the whole
\* frame when no write failed.
C19_UnknownCommand ==
    [][\A k \in Conns :
          (conns'[k].cmd = cmdUnknown /\ conns'[k] # conns[k]) =>
              /\ OnlyUnknownCommandError(conns'[k])
              /\ store' = store
              /\ issued' = issued
              /\ conns'[k].pc = "closed" =>
                    /\ FramePrefix(k)'
                    /\ ~conns'[k].failed => CompleteFrame(k)']_vars

\* C19 witness: a connection with an unknown command byte is closed, the
\* frame of the error written whole, while the store holds a challenge.
C19_Witness ==
    \E k \in Conns :
        /\ conns[k].cmd = cmdUnknown
        /\ conns[k].pc = "closed"
        /\ conns[k].data = ErrorObject(ErrUnknownCommand)
        /\ CompleteFrame(k)
        /\ store # EmptyStore

\* ------------------------------------------------- Spec: the bytes written
\* C20: what the server has written on a connection is a prefix of the one
\* frame of the payload handed to writeResponse: four bytes with the length
\* L of the payload, most significant first, then at most L bytes of it, and
\* all L when no write failed; the handler that has written anything is
\* done, also after a failed or short write.
C20_OneFrame ==
    \A k \in Conns :
        /\ FramePrefix(k)
        /\ Len(conns[k].out) >= LenBytes =>
              Len(conns[k].out) - LenBytes
                  <= SetBytes(SubSeq(conns[k].out, 1, LenBytes))
        /\ conns[k].out # <<>> => conns[k].pc = "closed"
        /\ (conns[k].pc = "closed" /\ conns[k].data # NoData
                /\ ~conns[k].failed) =>
              /\ CompleteFrame(k)
              /\ Len(conns[k].out) - LenBytes
                     = SetBytes(SubSeq(conns[k].out, 1, LenBytes))

\* C20 witness: a write of the payload came up short and the connection is
\* closed with a part of the frame written.
C20_Witness ==
    \E k \in Conns :
        /\ conns[k].pc = "closed"
        /\ conns[k].failed
        /\ Len(conns[k].out) > LenBytes
        /\ conns[k].out # FrameOf(Marshal(conns[k].data))

\* ------------------------------------ Spec: the answer to a failed Verify
\* The errors Verify returns.
VerifyErrors == {ErrNotFound, ErrInvalidChallenge, ErrInvalidSolution}

\* The handler of the closed connection k handed an error object with a
\* text to writeResponse.
ErrorHandedOver(k) ==
    /\ conns[k].data.kind = "error"
    /\ conns[k].data.error \in {Texts[i] : i \in 1..Len(Texts)}
    /\ Len(TextBytes(conns[k].data.error)) > 2

\* C21 as stated: a closed 0x02 connection on which Verify failed has
\* received the whole frame of an error object with a non-empty text.
C21_AsStated ==
    \A k \in Conns :
        (conns[k].cmd = cmdGetQuote /\ conns[k].pc = "closed"
             /\ VerifyFailed(k)) =>
            /\ ErrorHandedOver(k)
            /\ CompleteFrame(k)

\* C21: on a closed 0x02 connection on which Verify failed, the error is
\* NotFound, InvalidChallenge or InvalidSolution, the handler has handed the
\* error object of that error, with a non-empty text, to writeResponse, and
\* the connection has received the whole frame unless a write on it failed,
\* and then a prefix of the frame.
C21_VerifyFailureAnswered ==
    \A k \in Conns :
        (conns[k].cmd = cmdGetQuote /\ conns[k].pc = "closed"
             /\ VerifyFailed(k)) =>
            /\ conns[k].verr \in VerifyErrors
            /\ ErrorHandedOver(k)
            /\ conns[k].data.error = conns[k].verr
            /\ IsPrefix(conns[k].out, FrameOf(Marshal(conns[k].data)))
            /\ ~conns[k].failed =>
                  conns[k].out = FrameOf(Marshal(conns[k].data))

\* C21 witness: Verify found the challenge, its signature valid and the
\* solution wrong, and the InvalidSolution error frame was written whole.
C21_Witness ==
    \E k \in Conns :
        /\ conns[k].cmd = cmdGetQuote
        /\ conns[k].pc = "closed"
        /\ conns[k].found
        /\ conns[k].verr = ErrInvalidSolution
        /\ ~conns[k].failed
        /\ conns[k].out = FrameOf(Marshal(ErrorObject(ErrInvalidSolution)))

\* --------------------------------------- Spec: failures and their answers
\* io.ReadFull of the command byte failed on the closed connection k.
CommandReadFailed(k) ==
    /\ conns[k].pc = "closed"
    /\ conns[k].cmd = 0
    /\ conns[k].cmdReads = 1

\* The handler of the closed connection k returned without calling
\* writeResponse or writeError.
ClosedUnanswered(k) == conns[k].pc = "closed" /\ conns[k].data = NoData

\* C22 as stated, in its weakest reading: the handler of a connection on
\* which the read of the command byte failed has handed an error object to
\* writeResponse before the connection is closed.
C22_AsStated ==
    \A k \in Conns :
        CommandReadFailed(k) =>
            /\ ~ClosedUnanswered(k)
            /\ conns[k].data.kind = "error"

\* ----------------------------------------- claims about SpecLifecycle
\* The handler of connection k takes the step, or the connection is
\* released.
HandlerStep(k) == conns'[k] # conns[k] /\ conns[k].pc # "free"

\* The handler of connection k ends this step in a failure: it returns
\* without a response, or has an error object to send, or its write failed.
FailureStep(k) ==
    /\ HandlerStep(k)
    /\ conns'[k].pc \in {"write", "closed"}
    /\ \/ conns'[k].data = NoData
       \/ conns'[k].data.kind = "error"
       \/ conns'[k].failed

C26_AsStated ==
    (srv.stop = "returned" /\ srv.start = "returned") =>
        srv.socket = "closed"

\* C27: the steps of Stop change no connection, and neither the store nor
\* the set of issued challenges.
C27_StopLeavesHandlers ==
    [][srv'.stop # srv.stop =>
          /\ conns' = conns
          /\ store' = store
          /\ issued' = issued]_vars

\* C27 witness: after Stop has returned and closed the socket, a handler
\* accepted before has read its request, verified it and written the whole
\* frame of a quote.
C27_Witness ==
    \E k \in Conns :
        /\ srv.stop = "returned"
        /\ srv.socket = "closed"
        /\ conns[k].pc = "closed"
        /\ VerifySucceeded(k)
        /\ conns[k].data.kind = "quote"
        /\ CompleteFrame(k)

\* ------------------------------------------- SpecService: Generate's result
\* The stored challenge has the fields of c.
SameFields(stored, c) ==
    /\ stored.Complexity = c.Complexity
    /\ stored.Nonce = c.Nonce
    /\ stored.ExpiresAt = c.ExpiresAt
    /\ stored.Signature.bytes = c.Signature.bytes
    /\ stored.Solution = c.Solution

\* C11: whenever Generate returns success, the returned challenge has the
\* configured complexity, a 32-byte nonce, expiresAt equal to the generation
\* time plus the configured expiry duration and a signature valid under the
\* server secret, and the store holds under its id an entry with the same
\* fields.
C11_GenerateSuccess ==
    (gen.called /\ gen.err = ErrNil) =>
        LET c == gen.challenge
        IN  /\ c.Complexity = svc.complexity
            /\ Len(c.Nonce) = NonceLen
            /\ c.Nonce = gen.rnd.nonce
            /\ c.ExpiresAt = gen.t + svc.expirationTime
            /\ CorrectlySigned(c)
            /\ VerifySignature(c, svc.secret, gen.t)
            /\ Hex(ID(c)) \in DOMAIN store
            /\ SameFields(store[Hex(ID(c))], c)
            /\ c \in issued

\* Generate has just returned a challenge.
C11_Witness == gen.called /\ gen.err = ErrNil /\ gen.challenge \in issued

\* C12: when the store rejects the new challenge because its id is taken,
\* Generate returns that error and no challenge and leaves the store as it
\* was; when nonce generation fails it returns that error and no challenge
\* and leaves the store as it was.
C12_GenerateFailure ==
    gen.called =>
        LET taken ==
                /\ gen.rnd.err = ErrNil
                /\ Hex(ID(Challenge(svc.complexity, gen.rnd.nonce,
                                    gen.t + svc.expirationTime)))
                       \in DOMAIN gen.before
        IN  /\ gen.rnd.err # ErrNil => gen.err = gen.rnd.err
            /\ taken => gen.err = ErrChallengeExists
            /\ gen.err # ErrNil =>
                  /\ gen.rnd.err # ErrNil \/ taken
                  /\ gen.challenge = NoChallenge
                  /\ store = gen.before

\* Generate has just failed on an id that was taken.
C12_Witness ==
    /\ gen.called
    /\ gen.err = ErrChallengeExists
    /\ store = gen.before
    /\ store # EmptyStore

\* -------------------------------------------- SpecRepository: the claims
\* The goroutines whose call of operation op has had its effect.
ActedOps(op) == {t \in Threads : rep.ops[t].op = op /\ Acted(rep.ops[t])}

\* C13: CreateChallenge for a challenge whose id already has an entry returns
\* the AlreadyExists error and leaves the map as it was: a Get of that id
\* afterwards returns the values stored first, also when the second challenge
\* carries another signature or solution.
C13_CreateDuplicateRejected ==
    \A t \in ActedOps("create") :
        LET o == rep.ops[t]
            key == Hex(ID(o.c))
        IN  key \in DOMAIN o.before =>
                /\ o.err = ErrChallengeExists
                /\ o.after = o.before
                /\ GetChallenge(o.after, ID(o.c)).err = ErrNil
                /\ SameFields(GetChallenge(o.after, ID(o.c)).challenge,
                              o.before[key])

\* A create of the copy with another signature and solution was rejected
\* while the challenge stored first was in the map.
C13_Witness ==
    \E t \in ActedOps("create") :
        /\ rep.ops[t].c = RepoADup
        /\ rep.ops[t].err = ErrChallengeExists
        /\ SameFields(rep.ops[t].after[Hex(ID(RepoADup))], RepoA)

\* C15: DeleteChallenge of a present id removes that entry and no other and
\* returns nil, and GetChallenge of the id then returns NotFound;
\* DeleteChallenge of an absent id returns NotFound and changes nothing.
C15_Delete ==
    \A t \in ActedOps("delete") :
        LET o == rep.ops[t]
            key == Hex(o.id)
        IN  IF key \in DOMAIN o.before
            THEN /\ o.err = ErrNil
                 /\ DOMAIN o.after = DOMAIN o.before \ {key}
                 /\ \A k \in DOMAIN o.after : o.after[k] = o.before[k]
                 /\ GetChallenge(o.after, o.id).err = ErrNotFound
            ELSE /\ o.err = ErrNotFound
                 /\ o.after = o.before

\* Two deletes of the same id: the first removed the entry, the second was
\* told NotFound.
C15_Witness ==
    \E t, u \in ActedOps("delete") :
        /\ rep.ops[t].id = rep.ops[u].id
        /\ rep.ops[t].err = ErrNil
        /\ Hex(rep.ops[t].id) \in DOMAIN rep.ops[t].before
        /\ rep.ops[u].err = ErrNotFound
        /\ rep.ops[u].before = rep.ops[t].after

\* C16: a CreateChallenge or DeleteChallenge inside its critical section is
\* the only operation inside the repository.
C16_WritersExclusive ==
    \A t \in Threads :
        (Inside(rep.ops[t]) /\ IsWriter(rep.ops[t])) =>
            \A u \in Threads \ {t} : ~Inside(rep.ops[u])

\* Two GetChallenge calls are inside together while a writer waits.
C16_Witness ==
    \E t, u, w \in Threads :
        /\ t # u
        /\ rep.ops[t].op = "get" /\ Inside(rep.ops[t])
        /\ rep.ops[u].op = "get" /\ Inside(rep.ops[u])
        /\ IsWriter(rep.ops[w]) /\ rep.ops[w].pc = "lock"

\* The creates of the id that have had their effect, and whether the entry
\* of the id has been deleted.
CreatesOf(id) == {t \in ActedOps("create") : rep.ops[t].id = id}
Deleted(id) ==
    \E t \in ActedOps("delete") :
        rep.ops[t].id = id /\ rep.ops[t].err = ErrNil

\* C17: of the CreateChallenge calls for challenges with one id that run on
\* an empty slot with no delete of the id, exactly one returns nil and every
\* other returns AlreadyExists, the entry stored is the one of the call that
\* returned nil, and for every call the map it checked is the map it acted
\* on.
C17_OneCreateWins ==
    /\ \A t \in ActedOps("create") : rep.ops[t].seen = rep.ops[t].before
    /\ \A id \in RepoIDs :
          (CreatesOf(id) # {} /\ ~Deleted(id)) =>
              /\ Cardinality({t \in CreatesOf(id) :
                                  rep.ops[t].err = ErrNil}) = 1
              /\ \A t \in CreatesOf(id) :
                    IF rep.ops[t].err = ErrNil
                    THEN /\ Hex(id) \in DOMAIN store
                         /\ SameFields(store[Hex(id)], rep.ops[t].c)
                    ELSE rep.ops[t].err = ErrChallengeExists

\* Two creates of one id with different signatures ran together: the one
\* that called while the other held the lock was rejected.
C17_Witness ==
    \E t, u \in Threads :
        /\ rep.ops[t].op = "create" /\ rep.ops[t].pc = "done"
        /\ rep.ops[u].op = "create" /\ rep.ops[u].pc = "done"
        /\ rep.ops[t].id = rep.ops[u].id
        /\ rep.ops[t].c # rep.ops[u].c
        /\ rep.ops[t].err = ErrNil
        /\ rep.ops[u].err = ErrChallengeExists
        /\ rep.ops[u].blocked
        /\ rep.ops[u].before = rep.ops[t].after

\* ------------------------------- SpecLifecycle: Start, Stop and handlers
\* Start and Stop run in their own goroutines beside the handlers of Spec.
\* srv.socket is the listening socket ("none", "open", "closed"),
\* srv.listener whether s.listener is set, srv.shutdown whether shutdownCh
\* is closed, srv.last the connection accepted last.
LifecycleInit ==
    /\ Init
    /\ svc.complexity = 1

lifeFrame == <<now, svc, store, issued, call, domVars, gen, repVars, slv>>

\* What Stop can read from s.listener: Start writes the field and Stop reads
\* it with no synchronisation between the two, so the read can miss the
\* write.
ReadListener(s) == IF s.listener THEN {TRUE, FALSE} ELSE {FALSE}

\* Start: net.Listen
StartListen ==
    /\ Settled
    /\ srv.start = "idle"
    /\ \/ \* failed to start server
          srv' = [srv EXCEPT !.start = "failed"]
       \/ srv' = [srv EXCEPT !.start = "bound", !.socket = "open"]
    /\ UNCHANGED <<conns, lifeFrame>>

\* Start: s.listener = listener
StartPublish ==
    /\ Settled
    /\ srv.start = "bound"
    /\ srv' = [srv EXCEPT !.start = "select", !.listener = TRUE]
    /\ UNCHANGED <<conns, lifeFrame>>

\* Start: the select at the head of the loop
StartSelect ==
    /\ Settled
    /\ srv.start = "select"
    /\ srv' = [srv EXCEPT
          !.start = IF srv.shutdown THEN "returned" ELSE "accept"]
    /\ UNCHANGED <<conns, lifeFrame>>

\* Start: listener.Accept() and go s.handleConnection(conn), or the error
\* logged and continue
StartAccept(k) ==
    /\ Settled
    /\ srv.start = "accept"
    /\ \/ /\ srv.socket = "open"
          /\ conns[k].pc = "free"
          /\ conns' = [conns EXCEPT ![k].pc = "cmd"]
          /\ srv' = [srv EXCEPT !.start = "select", !.last = k]
       \/ /\ conns' = conns
          /\ srv' = [srv EXCEPT !.start = "select"]
    /\ UNCHANGED lifeFrame

\* Stop closing the connections of the running handlers as well.
StopCloseCancelling ==
    /\ Settled
    /\ srv.stop = "idle"
    /\ srv' = [srv EXCEPT !.stop = "closed", !.shutdown = TRUE]
    /\ conns' = [k \in Conns |->
                    IF conns[k].pc = "free" THEN conns[k]
                    ELSE [conns[k] EXCEPT !.pc = "closed"]]
    /\ UNCHANGED lifeFrame

\* Stop: close(s.shutdownCh)
StopClose ==
    /\ Settled
    /\ srv.stop = "idle"
    /\ srv' = [srv EXCEPT !.stop = "closed", !.shutdown = TRUE]
    /\ UNCHANGED <<conns, lifeFrame>>

\* Stop: if s.listener != nil { return s.listener.Close() }; return nil
StopListener ==
    /\ Settled
    /\ srv.stop = "closed"
    /\ \E set \in ReadListener(srv) :
          srv' = [srv EXCEPT
              !.stop = "returned",
              !.socket = IF set THEN "closed" ELSE @]
    /\ UNCHANGED <<conns, lifeFrame>>

LifecycleNext ==
    \/ StartListen
    \/ StartPublish
    \/ StartSelect
    \/ StopClose
    \/ StopListener
    \/ \E k \in Conns :
          \/ StartAccept(k)
          \/ handleConnection(k)
          \/ handleGetChallenge(k)
          \/ handleGetQuoteReadID(k)
          \/ handleGetQuoteReadSolution(k)
          \/ handleGetQuoteGet(k)
          \/ handleGetQuoteSignature(k)
          \/ handleGetQuoteSolution(k)
          \/ handleGetQuoteRespond(k)
          \/ writeResponse(k)
          \/ Release(k)

SpecLifecycle == LifecycleInit /\ [][LifecycleNext]_vars

\* ------------------------------------ SpecHandler: the handlers, fairly
\* The handlers of Spec without the clock, with the deadlines and the
\* scheduler as fairness conditions.

HandlerInit ==
    /\ Init
    /\ svc.complexity = 1

HandlerNext ==
    \E k \in Conns :
        \/ Accept(k)
        \/ handleConnection(k)
        \/ handleGetChallenge(k)
        \/ handleGetQuoteReadID(k)
        \/ handleGetQuoteReadSolution(k)
        \/ handleGetQuoteGet(k)
        \/ handleGetQuoteSignature(k)
        \/ handleGetQuoteSolution(k)
        \/ handleGetQuoteRespond(k)
        \/ writeResponse(k)
        \/ Release(k)

\* A blocking read or write of the handler of connection k ends because its
\* deadline expires: io.ReadFull or conn.Write returns the timeout error.
DeadlineExpires(k) ==
    \/ handleConnection(k) /\ conns'[k].pc = "closed"
    \/ handleGetQuoteReadID(k) /\ conns'[k].pc = "write"
    \/ handleGetQuoteReadSolution(k) /\ conns'[k].pc = "write"
    \/ writeResponse(k) /\ conns'[k].failed

\* The handler of connection k takes a step that waits for no peer.
Computes(k) ==
    \/ handleGetChallenge(k)
    \/ handleGetQuoteGet(k)
    \/ handleGetQuoteSignature(k)
    \/ handleGetQuoteSolution(k)
    \/ handleGetQuoteRespond(k)

\* No deadline is set: a read or a write can block for ever.
NoDeadlines == TRUE

\* SetReadDeadline(now + readTimeout) and SetWriteDeadline(now +
\* writeTimeout): a read or write that stays blocked ends with the timeout.
\* The fairness is strong because another connection that is closed and not
\* yet released suspends every step for a moment.
Deadlines == \A k \in Conns : SF_vars(DeadlineExpires(k))

\* A step of Computes(k) is enabled: the handler is at one of its positions.
CanCompute(k) ==
    /\ Settled
    /\ conns[k].pc \in {"generate", "get", "signature", "solution", "respond"}

\* The goroutines are scheduled: a handler that can compute does, and a
\* closed connection is released.  The first is SF_vars(Computes(k)) with
\* ENABLED <<Computes(k)>>_vars written out as CanCompute(k).
Scheduling ==
    \A k \in Conns :
        /\ <>[](~CanCompute(k)) \/ []<><<Computes(k)>>_vars
        /\ WF_vars(Release(k))

SpecHandler == HandlerInit /\ [][HandlerNext]_vars /\ Deadlines /\ Scheduling

\* ------------------------------------ SpecWire: the solution on the wire
\* The solutions a client sends: 0, and numbers of one, two and three bytes.
WireSolutions == {0, 1, 255, 256, 257, 65535, 65536, 999999}

WireInit == DomainInit

wireFrame == <<svcVars, conns, gen, repVars, srv, slv>>

\* The client pads solution.Bytes() with leading zeros to 32 bytes and writes
\* them to the connection.
WireSend ==
    /\ res = NoRes
    /\ \E solution \in WireSolutions :
          res' = [op |-> "sent", solution |-> solution,
                  bytes |-> FillBytes(solution, SolLen)]
    /\ UNCHANGED <<now, ch, signed, wireFrame>>

\* The server reads 32 bytes and makes new(big.Int).SetBytes(solBytes) of
\* them.
WireReceive ==
    /\ res # NoRes
    /\ res.op = "sent"
    /\ res' = [op |-> "received", solution |-> res.solution,
               bytes |-> res.bytes, decoded |-> SetBytes(res.bytes)]
    /\ UNCHANGED <<now, ch, signed, wireFrame>>

\* VerifySolution on the client's number and on the server's, and the bytes
\* each of them hashes after the id.
WireVerify ==
    /\ res # NoRes
    /\ res.op = "received"
    /\ res' = [op |-> "verified", solution |-> res.solution,
               bytes |-> res.bytes, decoded |-> res.decoded,
               clientHashed |-> BigBytes(res.solution),
               serverHashed |-> BigBytes(res.decoded),
               client |-> SolutionOutcome(ch, res.solution, now),
               server |-> SolutionOutcome(ch, res.decoded, now)]
    /\ UNCHANGED <<now, ch, signed, wireFrame>>

WireNext ==
    \/ DTick
    \/ WireSend
    \/ WireReceive
    \/ WireVerify
    \/ DReturn

SpecWire == WireInit /\ [][WireNext]_vars

\* ------------------------------ SpecDigest: VerifySolution on any digest
\* A digest of z zero bytes followed by bytes b.
ZeroPrefixed(z, b) == [i \in 1..Size |-> IF i <= z THEN 0 ELSE b]

\* Digests with every number of leading zero bytes, the all-zero digest
\* among them.
Digests == {ZeroPrefixed(z, b) : z \in 0..Size, b \in {1, 255}}

\* Complexities up to, at and beyond the length of a digest.
DigestComplexities ==
    {-1, 0, 1, 2, Size - 1, Size, Size + 1, DefaultComplexity}

DigestInit ==
    /\ now = 0
    /\ \E c \in DigestComplexities, n \in Nonces, e \in Times :
          /\ ch = Challenge(c, n, e)
          /\ signed = [done |-> FALSE, secret |-> <<>>, c |-> ch]
    /\ res = NoRes
    /\ svc = [secret |-> ServerSecret, complexity |-> 1,
              expirationTime |-> Expiration]
    /\ store = EmptyStore
    /\ issued = {}
    /\ call = NoCall
    /\ conns = NoConns
    /\ gen = NoGen
    /\ rep = NoRep
    /\ al = NoAlias
    /\ srv = NewServer
    /\ slv = NoSolve

\* ok := challenge.VerifySolution(solution), for a solution whose digest is
\* hashBytes
DigestVerifySolution ==
    /\ res = NoRes
    /\ \E hashBytes \in Digests :
          res' = [op |-> "VerifySolution", c |-> ch, hashBytes |-> hashBytes,
                  ret |-> OutcomeOfDigest(ch, hashBytes, now)]
    /\ UNCHANGED <<now, ch, signed>>
    /\ UNCHANGED <<svcVars, conns, gen, repVars, srv, slv>>

DigestNext ==
    \/ DTick
    \/ DigestVerifySolution
    \/ DReturn

SpecDigest == DigestInit /\ [][DigestNext]_vars

\* ------------------------------------------------- claims about SpecAlias
\* The value a GetChallenge for key would return now.
LaterGet(key) ==
    LET copy == AliasGet(al, key) IN Deref(copy.heap, copy.ptr)

\* The objects reachable from the challenges the caller holds.
CallerObjects == UNION {Reach(al.heap, p) : p \in al.held}

\* C14: whatever the caller writes into the challenge it passed to
\* CreateChallenge or into a challenge GetChallenge returned, a later
\* GetChallenge returns the fields the challenge had when it was created:
\* no object of a stored challenge is reachable from a pointer the caller
\* holds.
C14_NoAliasing ==
    \A key \in DOMAIN al.store :
        /\ LaterGet(key) = CopyChallenge(al.orig[key])
        /\ Reach(al.heap, al.store[key]) \cap CallerObjects = {}

\* C14 witness: the caller has changed both the challenge it passed to
\* CreateChallenge and a challenge GetChallenge returned for the same id.
C14_Witness ==
    \E key \in DOMAIN al.store :
        /\ \E p \in al.passed :
              /\ Hex(ID(al.orig[key])) = key
              /\ Deref(al.heap, p) # al.orig[key]
              /\ CopyChallenge(Deref(al.heap, p)) # CopyChallenge(al.orig[key])
        /\ \E q \in al.got :
              Deref(al.heap, q) # CopyChallenge(al.orig[key])
        /\ LaterGet(key) = CopyChallenge(al.orig[key])

\* ------------------------------------------------- SpecSolve: the search
\* A call of Solve that has returned result, err at time t.
Solved(s, result, err, t) ==
    [s EXCEPT !.pc = "done", !.result = result, !.err = err, !.tEnd = t]

\* The state of a call of Solve(ctx, challenge) entered at time t.  cancelAt
\* and cancelPc note how many candidates had been tested, and where Solve
\* was, when the context was cancelled.
SolveEntered(c, ctx, t) ==
    [pc |-> "signature", challenge |-> c, ctx |-> ctx, t0 |-> t, i |-> 0,
     solution |-> 0, tested |-> 0, result |-> NilInt, err |-> ErrNil,
     tEnd |-> t, cancelAt |-> IF ctx = ErrNil THEN -1 ELSE 0,
     cancelPc |-> IF ctx = ErrNil THEN "none" ELSE "call"]

\* Solve entered without its expiry check: a mutant of SolveEnter.
SolveEnterNoExpiry(c, ctx, t) == SolveEntered(c, ctx, t)

\* Solve(ctx, challenge) entered at time t, up to its first check:
\* time.Now().After(challenge.ExpiresAt).
SolveEnter(c, ctx, t) ==
    IF After(t, c.ExpiresAt)
    THEN Solved(SolveEntered(c, ctx, t), NilInt, ErrChallengeExpired, t)
    ELSE SolveEntered(c, ctx, t)

\* The second check, challenge.VerifySignature(s.secret), at time t.
SolveSignature(s, secret, t) ==
    IF ~VerifySignature(s.challenge, secret, t)
    THEN Solved(s, NilInt, ErrInvalidChallenge, t)
    ELSE [s EXCEPT !.pc = "loop"]

\* The loop running while i <= maxIterations: a mutant of SolveLoop.
SolveLoopOneMore(s, t) ==
    IF ~(s.i <= maxIterations)
    THEN Solved(s, NilInt, ErrSolutionNotFound, t)
    ELSE IF s.ctx # ErrNil THEN Solved(s, NilInt, s.ctx, t)
    ELSE [s EXCEPT !.pc = "check"]

\* The loop without its case <-ctx.Done(): a mutant of SolveLoop.
SolveLoopIgnoringContext(s, t) ==
    IF ~(s.i < maxIterations)
    THEN Solved(s, NilInt, ErrSolutionNotFound, t)
    ELSE [s EXCEPT !.pc = "check"]

\* The head of one pass of the loop at time t: the loop condition, then the
\* select on ctx.Done(), whose default case goes on to the candidate.  After
\* the loop, ErrSolutionNotFound.
SolveLoop(s, t) ==
    IF ~(s.i < maxIterations)
    THEN Solved(s, NilInt, ErrSolutionNotFound, t)
    ELSE IF s.ctx # ErrNil THEN Solved(s, NilInt, s.ctx, t)
    ELSE [s EXCEPT !.pc = "check"]

\* The default case with a candidate that never advances: a mutant of
\* SolveCheck.
SolveCheckStuck(s, t) ==
    LET outcome == SolutionOutcome(s.challenge, s.solution, t)
        tested == [s EXCEPT !.tested = @ + 1]
    IN  IF outcome = "panic" THEN [tested EXCEPT !.pc = "panicked"]
        ELSE IF outcome = "true"
        THEN Solved(tested, BigInt(s.solution), ErrNil, t)
        ELSE [tested EXCEPT !.pc = "loop", !.i = @ + 1]

\* The default case advancing by two: a mutant of SolveCheck.
SolveCheckStepTwo(s, t) ==
    LET outcome == SolutionOutcome(s.challenge, s.solution, t)
        tested == [s EXCEPT !.tested = @ + 1]
    IN  IF outcome = "panic" THEN [tested EXCEPT !.pc = "panicked"]
        ELSE IF outcome = "true"
        THEN Solved(tested, BigInt(s.solution), ErrNil, t)
        ELSE [tested EXCEPT !.pc = "loop", !.solution = @ + 2, !.i = @ + 1]

\* The default case of the select at time t: VerifySolution(solution), and
\* solution.Add(solution, 1) with i++ when it is rejected.
SolveCheck(s, t) ==
    LET outcome == SolutionOutcome(s.challenge, s.solution, t)
        tested == [s EXCEPT !.tested = @ + 1]
    IN  IF outcome = "panic" THEN [tested EXCEPT !.pc = "panicked"]
        ELSE IF outcome = "true"
        THEN Solved(tested, BigInt(s.solution), ErrNil, t)
        ELSE [tested EXCEPT !.pc = "loop", !.solution = @ + 1, !.i = @ + 1]

SolveInit == ServiceInit

solveFrame == <<svc, call, domVars, conns, gen, repVars, srv>>

\* time passes, also while Solve runs
SolveTick ==
    /\ now <= MaxTime
    /\ now' = now + 1
    /\ UNCHANGED <<store, issued, slv, solveFrame>>

\* challenge, err := service.Generate(ctx)
SolveGenerate ==
    /\ slv.pc = "idle"
    /\ \E rnd \in GenerateNonce :
          LET g == Generate(svc, store, rnd, now)
          IN  /\ g.err = ErrNil => Cardinality(issued) < MaxIssued
              /\ store' = g.store
              /\ issued' = IF g.err = ErrNil
                           THEN issued \cup {g.challenge}
                           ELSE issued
    /\ UNCHANGED <<now, slv, solveFrame>>

\* The challenges a caller passes to Solve: one Generate returned, or what
\* it made of it.
SolveInputs == issued \cup UNION {Tampered(c) : c \in issued}

\* solution, err := service.Solve(ctx, challenge), with a context that is
\* live, cancelled or past its deadline.
SolveCall ==
    /\ slv.pc = "idle"
    /\ \E c \in SolveInputs, ctx \in {ErrNil, Canceled, DeadlineExceeded} :
          slv' = SolveEnter(c, ctx, now)
    /\ UNCHANGED <<now, store, issued, solveFrame>>

SolveVerifySignature ==
    /\ slv.pc = "signature"
    /\ slv' = SolveSignature(slv, svc.secret, now)
    /\ UNCHANGED <<now, store, issued, solveFrame>>

SolveIterate ==
    /\ slv.pc = "loop"
    /\ slv' = SolveLoop(slv, now)
    /\ UNCHANGED <<now, store, issued, solveFrame>>

SolveCandidate ==
    /\ slv.pc = "check"
    /\ slv' = SolveCheck(slv, now)
    /\ UNCHANGED <<now, store, issued, solveFrame>>

\* The caller cancels the context, or the context's deadline passes, while
\* Solve runs.
SolveCancel ==
    /\ slv.pc \in {"signature", "loop", "check"}
    /\ slv.ctx = ErrNil
    /\ \E e \in {Canceled, DeadlineExceeded} :
          slv' = [slv EXCEPT !.ctx = e, !.cancelAt = slv.tested,
                             !.cancelPc = slv.pc]
    /\ UNCHANGED <<now, store, issued, solveFrame>>

\* Solve has returned and the caller goes on.
SolveReturn ==
    /\ slv.pc = "done"
    /\ slv' = NoSolve
    /\ UNCHANGED <<now, store, issued, solveFrame>>

SolveNext ==
    \/ SolveTick
    \/ SolveGenerate
    \/ SolveCall
    \/ SolveVerifySignature
    \/ SolveIterate
    \/ SolveCandidate
    \/ SolveCancel
    \/ SolveReturn

SpecSolve == SolveInit /\ [][SolveNext]_vars

\* ----------------------------------------------- claims about SpecHandler
\* C24: the handler of every accepted connection reaches the deferred
\* conn.Close(), whatever the peer does: a read or write the peer leaves
\* blocked ends when its deadline expires.
C24_HandlersEnd ==
    \A k \in Conns : (conns[k].pc # "free") ~> (conns[k].pc = "closed")

\* C24 witness: the peer stopped after the challenge id, the read of the
\* solution failed, the write of the error failed as well, and the
\* connection is closed.
C24_Witness ==
    \E k \in Conns :
        /\ conns[k].pc = "closed"
        /\ conns[k].cmd = cmdGetQuote
        /\ conns[k].data = ErrorObject(ErrReadSolution)
        /\ conns[k].failed

\* ------------------------------------------------- claims about SpecSolve
\* The candidates of the search.
Candidates == 0..(maxIterations - 1)

\* The signature of c is the one secret gives it, whatever the time.
SignatureMatches(c, secret) ==
    /\ ~c.Signature.nil
    /\ Sum256(ID(c) \o secret) = c.Signature.bytes

\* Solve has returned for a challenge Generate produced, called while the
\* challenge was unexpired, and its context was never cancelled.
SolvedGenerated ==
    /\ slv.pc = "done"
    /\ slv.challenge \in issued
    /\ ~After(slv.t0, slv.challenge.ExpiresAt)
    /\ slv.ctx = ErrNil

\* Solve returned a solution that VerifySolution accepted when Solve
\* returned.
ReturnedSolution ==
    /\ slv.err = ErrNil
    /\ ~slv.result.nil
    /\ slv.result.v \in Candidates
    /\ VerifySolution(slv.challenge, slv.result.v, slv.tEnd)

\* C28 as stated: whenever some candidate satisfied VerifySolution at the
\* time of the call, Solve returns an accepted solution.
C28_AsStated ==
    (/\ SolvedGenerated
     /\ \E x \in Candidates : VerifySolution(slv.challenge, x, slv.t0))
        => ReturnedSolution

\* C28: Solve on a generated, validly signed challenge that is still
\* unexpired when Solve returns, run without cancellation, returns a solution
\* that VerifySolution accepts, provided some candidate below the ceiling is
\* one.
C28_SolveFinds ==
    (/\ SolvedGenerated
     /\ \E x \in Candidates : VerifySolution(slv.challenge, x, slv.tEnd))
        => ReturnedSolution

\* C28 witness: Solve returned a solution other than 0 for a generated
\* challenge.
C28_Witness ==
    /\ SolvedGenerated
    /\ ReturnedSolution
    /\ slv.result.v > 0
    /\ slv.tested = slv.result.v + 1

\* C29: Solve never tests more than maxIterations candidates; when it returns
\* without a solution, its context live and its two checks passed, it has
\* tested them all and returns nil and ErrSolutionNotFound, an error value
\* that differs from those of the other outcomes.
C29_SearchBounded ==
    /\ slv.pc # "idle" => slv.tested <= maxIterations
    /\ slv.pc = "done" =>
          /\ slv.err = ErrNil <=> ~slv.result.nil
          /\ (/\ slv.ctx = ErrNil
              /\ slv.err \notin {ErrNil, ErrChallengeExpired,
                                 ErrInvalidChallenge})
                => /\ slv.err = ErrSolutionNotFound
                   /\ slv.tested = maxIterations
          /\ slv.err = ErrSolutionNotFound =>
                /\ slv.result.nil
                /\ slv.tested = maxIterations
                /\ slv.i = maxIterations
    /\ ErrSolutionNotFound \notin
          {ErrNil, ErrChallengeExpired, ErrInvalidChallenge, Canceled,
           DeadlineExceeded}

\* C29 witness: Solve tested every candidate of an unexpired challenge and
\* returned ErrSolutionNotFound.
C29_Witness ==
    /\ slv.pc = "done"
    /\ slv.err = ErrSolutionNotFound
    /\ slv.ctx = ErrNil
    /\ slv.tested = maxIterations
    /\ ~After(slv.tEnd, slv.challenge.ExpiresAt)
    /\ \A x \in Candidates : ~VerifySolution(slv.challenge, x, slv.t0)

\* C30: a challenge expired when Solve is called gives ErrChallengeExpired,
\* whatever its signature; an unexpired one whose signature does not match
\* gives ErrInvalidChallenge; in both cases the solution is nil and no
\* candidate was tested.
C30_PreChecks ==
    slv.pc = "done" =>
        /\ After(slv.t0, slv.challenge.ExpiresAt) =>
              /\ slv.err = ErrChallengeExpired
              /\ slv.result.nil
              /\ slv.tested = 0
        /\ (/\ ~After(slv.t0, slv.challenge.ExpiresAt)
            /\ ~SignatureMatches(slv.challenge, svc.secret)) =>
              /\ slv.err = ErrInvalidChallenge
              /\ slv.result.nil
              /\ slv.tested = 0
        /\ slv.err \in {ErrChallengeExpired, ErrInvalidChallenge} =>
              /\ slv.result.nil
              /\ slv.tested = 0

\* C30 witness: Solve returned ErrChallengeExpired for an expired challenge
\* whose signature does not match.
C30_Witness ==
    /\ slv.pc = "done"
    /\ After(slv.t0, slv.challenge.ExpiresAt)
    /\ ~SignatureMatches(slv.challenge, svc.secret)
    /\ slv.err = ErrChallengeExpired
    /\ slv.tested = 0

\* ------------------------------------------- SpecSolve: cancellation
\* The checks Solve may still make once its context is cancelled: the one in
\* progress, if any.
ChecksAfterCancel == IF slv.cancelPc = "check" THEN 1 ELSE 0

\* After the cancellation Solve started no candidate check.
NoFurtherCandidate ==
    (slv.pc # "idle" /\ slv.ctx # ErrNil) =>
        slv.tested <= slv.cancelAt + ChecksAfterCancel

\* C31 as stated, for a context cancelled during the search: Solve starts no
\* further check and returns the cancellation error with a nil solution.
C31_AsStated ==
    /\ NoFurtherCandidate
    /\ (slv.pc = "done" /\ slv.cancelPc \in {"loop", "check"}) =>
          /\ slv.err = slv.ctx
          /\ slv.result.nil

\* C31: with the context cancelled, Solve starts no further check; it returns
\* the cancellation error with a nil solution unless one of its two checks of
\* the challenge fails, the candidate check in progress accepts its candidate,
\* or every candidate has been tested.
C31_CancellationStops ==
    /\ NoFurtherCandidate
    /\ (slv.pc = "done" /\ slv.ctx # ErrNil) =>
          \/ /\ slv.err = slv.ctx
             /\ slv.result.nil
          \/ /\ slv.err = ErrChallengeExpired
             /\ slv.cancelPc = "call"
             /\ slv.result.nil
          \/ /\ slv.err = ErrInvalidChallenge
             /\ slv.cancelPc \in {"call", "signature"}
             /\ slv.result.nil
          \/ /\ slv.err = ErrNil
             /\ slv.cancelPc = "check"
             /\ slv.result = BigInt(slv.cancelAt)
          \/ /\ slv.err = ErrSolutionNotFound
             /\ slv.cancelPc \in {"check", "loop"}
             /\ slv.tested = maxIterations
             /\ slv.result.nil

\* C31 witness: the context was cancelled between two candidates, after at
\* least one was tested, and Solve returned its error without another test.
C31_Witness ==
    /\ slv.pc = "done"
    /\ slv.ctx # ErrNil
    /\ slv.err = slv.ctx
    /\ slv.result.nil
    /\ slv.cancelPc = "loop"
    /\ slv.cancelAt > 0
    /\ slv.tested = slv.cancelAt

\* ------------------------------------------- SpecSolve: the order of search
\* C36: a solution Solve returns is the last of the candidates 0, 1, 2, ... it
\* tested, VerifySolution accepts it, and rejects every smaller candidate.
C36_LeastSolution ==
    (slv.pc = "done" /\ ~slv.result.nil) =>
        /\ slv.err = ErrNil
        /\ slv.result.v = slv.solution
        /\ slv.result.v = slv.i
        /\ slv.tested = slv.result.v + 1
        /\ VerifySolution(slv.challenge, slv.result.v, slv.tEnd)
        /\ \A x \in 0..(slv.result.v - 1) :
              ~VerifySolution(slv.challenge, x, slv.tEnd)

\* C36 witness: Solve returned a solution after it rejected smaller
\* candidates, with time passing during the search.
C36_Witness ==
    /\ slv.pc = "done"
    /\ ~slv.result.nil
    /\ slv.result.v >= 2
    /\ slv.tEnd > slv.t0
    /\ ~VerifySolution(slv.challenge, 0, slv.t0)

\* ------------------------------------------ SpecDomain: VerifySolution again
\* The instants at which a second call can be made.
CallTimes == 0..(MaxTime + 1)

\* VerifySolution has just returned; the clock still shows the time of the
\* call.
VerifiedSolution == res # NoRes /\ res.op = "VerifySolution"

\* C32 as stated: a second call with the same challenge and solution, at any
\* time, returns what the first returned.
C32_AsStated ==
    VerifiedSolution =>
        \A t \in CallTimes :
            SolutionOutcome(res.c, res.solution, t) = res.ret

\* C32: a second call with the same challenge and solution returns what the
\* first returned when both are made up to the expiry instant or both after
\* it, and the call leaves the challenge as it was.
C32_Deterministic ==
    VerifiedSolution =>
        /\ \A t \in CallTimes :
              After(t, res.c.ExpiresAt) = After(now, res.c.ExpiresAt) =>
                  SolutionOutcome(res.c, res.solution, t) = res.ret
        /\ After(now, res.c.ExpiresAt) => res.ret = "false"
        /\ ch = res.c

\* C32 witness: VerifySolution accepted a solution, and there is another
\* instant before the expiry at which the call can be repeated.
C32_Witness ==
    /\ VerifiedSolution
    /\ res.ret = "true"
    /\ \E t \in CallTimes \ {now} : ~After(t, res.c.ExpiresAt)

\* ---------------------------------------- SpecService: expiry inside Verify
\* C40: Verify never returns ErrChallengeExpired.  When the challenge it
\* found is expired at its signature check, it returns ErrInvalidChallenge;
\* when the challenge passes that check and is expired at the solution check,
\* it returns ErrInvalidSolution.
C40_ExpiryInsideVerify ==
    call.pc = "done" =>
        /\ call.err # ErrChallengeExpired
        /\ (call.tSig >= 0 /\ After(call.tSig, call.challenge.ExpiresAt))
              => call.err = ErrInvalidChallenge
        /\ (call.tSol >= 0 /\ After(call.tSol, call.challenge.ExpiresAt))
              => call.err = ErrInvalidSolution

\* C40 witness: a correctly signed challenge expired between the two checks,
\* and Verify returned ErrInvalidSolution for a solution whose digest has
\* the zero bytes the complexity asks for.
C40_Witness ==
    /\ call.pc = "done"
    /\ call.err = ErrInvalidSolution
    /\ ~After(call.tSig, call.challenge.ExpiresAt)
    /\ After(call.tSol, call.challenge.ExpiresAt)
    /\ LeadingZeros(Sum256(ID(call.challenge) \o BigBytes(call.solution)),
                    call.challenge.Complexity, 0) = "true"

\* ------------------------------------------- SpecService: Verify and replay
\* The steps of a call of Verify.
VerifySteps == SVerifyGet \/ SVerifySignature \/ SVerifySolution \/ SReturn

\* What Verify returns when the caller submits the id and the solution of
\* the call just made once more, at time t.
VerifyAgain(t) == VerifyOn(svc, store, call.id, call.solution, t)

\* Verify has returned nil and nobody else has removed the challenge.
VerifiedAndKept ==
    /\ call.pc = "done"
    /\ call.err = ErrNil
    /\ GetChallenge(store, call.id).err = ErrNil
    /\ GetChallenge(store, call.id).challenge = call.challenge

\* C35: no step of Verify changes the store, whatever it returns; after a
\* successful Verify the same id and solution are accepted again at every
\* instant up to the expiry.
C35_VerifyKeepsStore ==
    [][VerifySteps =>
          /\ store' = store
          /\ issued' = issued
          /\ VerifiedAndKept =>
                \A t \in now..(MaxTime + 1) :
                    ~After(t, call.challenge.ExpiresAt)
                        => VerifyAgain(t) = ErrNil]_vars

\* C35 witness: Verify has returned nil, the challenge is in the store as it
\* was, and the same id and solution are accepted at a later instant.
C35_Witness ==
    /\ VerifiedAndKept
    /\ call.challenge \in issued
    /\ now < call.challenge.ExpiresAt
    /\ VerifyAgain(now + 1) = ErrNil

\* ------------------------------------- SpecService: Verify and the store
\* Challenges of other ids that the store may hold besides those submitted.
OtherChallenges ==
    {Sign(Challenge(1, n, MaxTime + 1), ServerSecret) : n \in Nonces}

C37_WireRoundTrip ==
    /\ (res # NoRes /\ res.op \in {"sent", "received", "verified"}) =>
          /\ Len(res.bytes) = SolLen
          /\ res.solution \in WireSolutions
    /\ (res # NoRes /\ res.op \in {"received", "verified"}) =>
          res.decoded = res.solution
    /\ (res # NoRes /\ res.op = "verified") =>
          /\ res.serverHashed = res.clientHashed
          /\ Len(res.serverHashed) <= 3
          /\ res.server = res.client

\* C37 witness: a solution of more than one byte went over the wire and the
\* server's VerifySolution accepted it, as the client's did.
C37_Witness ==
    /\ res # NoRes
    /\ res.op = "verified"
    /\ res.solution >= 256
    /\ res.bytes[SolLen - 1] # 0
    /\ res.client = "true"
    /\ res.server = "true"

\* ------------------------------------------ SpecAlias: the keys of the map
\* The challenge stored under key.
StoredUnder(key) == Deref(al.heap, al.store[key])

\* C39: every key of the map is the hex encoding of the id of the challenge
\* stored under it, whatever the caller did to the challenges it passed or
\* was given, and no two entries have the same id.
C39_KeysAreIDs ==
    /\ \A key \in DOMAIN al.store : Hex(ID(StoredUnder(key))) = key
    /\ \A j, k \in DOMAIN al.store :
          ID(StoredUnder(j)) = ID(StoredUnder(k)) => j = k

\* C39 witness: an entry was deleted, the map holds an entry, and the caller
\* has changed the id of the challenge it passed for that entry.
C39_Witness ==
    /\ DOMAIN al.orig # DOMAIN al.store
    /\ \E key \in DOMAIN al.store :
          \E p \in al.passed :
              /\ Hex(ID(al.orig[key])) = key
              /\ Hex(ID(Deref(al.heap, p))) \notin DOMAIN al.orig
    /\ al.writes > 0

\* ----------------------------------------------- claims about SpecDigest
\* C38 as stated: VerifySolution returns true or false for every complexity
\* and digest, and false for an unexpired challenge whose complexity exceeds
\* the length of the digest.
C38_AsStated ==
    (res # NoRes /\ res.op = "VerifySolution") =>
        /\ res.ret \in {"true", "false"}
        /\ (res.c.Complexity > Size /\ ~After(now, res.c.ExpiresAt))
              => res.ret = "false"

\* ------------------------------------------------- Spec: end to end
\* The challenge Generate issued under the id read on connection k.
IssuedFor(k) == {g \in issued : ID(g) = conns[k].id}

\* Connection k carried a 0x02 request with the id of an issued challenge and
\* a solution whose digest meets that challenge's complexity, Verify has
\* returned, each check Verify made was made before the challenge expired,
\* the collaborator had a quote, and the handler has ended.
SolvedRequest(k) ==
    /\ conns[k].cmd = cmdGetQuote
    /\ conns[k].pc = "closed"
    /\ conns[k].verified
    /\ conns[k].data # ErrorObject(ErrNoQuotes)
    /\ \E g \in IssuedFor(k) :
          /\ LeadingZeros(
                 Sum256(ID(g) \o BigBytes(SetBytes(conns[k].solBytes))),
                 g.Complexity, 0) = "true"
          /\ conns[k].tSig <= g.ExpiresAt
          /\ conns[k].tSol <= g.ExpiresAt

====
